---- MODULE Spec2Model ----
(***************************************************************************)
(* Personal finance tracker: rate resolution (CurrencyConverter), the      *)
(* optimistic buffer and its reconciliation with the store.                *)
(*                                                                         *)
(* Rates are fixed-point numbers counted in hundredths (1.0 is 100).       *)
(* Time is counted in abstract seconds; ttl is the constructor argument.   *)
(***************************************************************************)
EXTENDS Integers, Sequences, FiniteSets, TLC

VARIABLES
    now,            \* time.time()
    ttl,            \* CurrencyConverter.ttl
    cache,          \* CurrencyConverter._cache.get("_single")
    disk,           \* the file at cache_path
    last,           \* what the last call did (observation of one call)
    store,          \* rows of the transactions table, in insertion order
    optimistic_tx,  \* st.session_state.optimistic_tx
    view,           \* the frame render_table returned last
    lastTx,         \* what the last operation on transactions did
    call            \* a function applied to drawn arguments: its name,
                    \* its arguments and, once applied, its result

rateVars == <<now, ttl, cache, disk, last>>
txVars == <<store, optimistic_tx, view, lastTx>>
vars == <<now, ttl, cache, disk, last, store, optimistic_tx, view, lastTx, call>>

-----------------------------------------------------------------------------
(* Bounds of the model *)

MaxNow == 13
MaxTTL == 1

-----------------------------------------------------------------------------
(* Strings: str.upper() and str.strip() on the strings the model uses *)

Upper(s) ==
    CASE s = "eur" -> "EUR"
      [] s = "usd" -> "USD"
      [] s = "gbp" -> "GBP"
      [] s = " usd" -> " USD"
      [] s = "Income" -> "INCOME"
      [] s = "income" -> "INCOME"
      [] s = "expense" -> "EXPENSE"
      [] s = "clear" -> "CLEAR"
      [] s = "reset" -> "RESET"
      [] s = "clea" -> "CLEA"
      [] OTHER -> s

Lower(s) ==
    CASE s = "Income" -> "income"
      [] s = "INCOME" -> "income"
      [] s = "EXPENSE" -> "expense"
      [] s = "EUR" -> "eur"
      [] s = "USD" -> "usd"
      [] OTHER -> s

Strip(s) ==
    CASE s = " " -> ""
      [] s = " usd" -> "usd"
      [] s = " USD" -> "USD"
      [] s = " clear " -> "clear"
      [] s = "reset " -> "reset"
      [] OTHER -> s

-----------------------------------------------------------------------------
(* Rate tables *)

ONE == 100

EmptyTable == [c \in {} |-> 0]

SEED_BASE == "EUR"

SEED_RATES ==
    ("EUR" :> 100) @@ ("USD" :> 108) @@ ("GBP" :> 85) @@ ("INR" :> 9000) @@
    ("AUD" :> 160) @@ ("CAD" :> 147) @@ ("JPY" :> 16000) @@ ("CNY" :> 780)

\* the provider descriptors, by host name (url.split("/")[2])
PROVIDERS == <<"api.exchangerate.host", "api.frankfurter.app", "open.er-api.com">>

StaleFactor == 12

-----------------------------------------------------------------------------
(* Decoded JSON values and response bodies *)

JAbsent == [t |-> "absent", s |-> "", n |-> 0]
JNull == [t |-> "null", s |-> "", n |-> 0]
JStr(x) == [t |-> "str", s |-> x, n |-> 0]
JNum(x) == [t |-> "num", s |-> "", n |-> x]
\* true and false: bool is a subclass of int, float(True) is 1.0
JBool(b) == [t |-> "bool", s |-> "", n |-> IF b THEN ONE ELSE 0]

\* Python truthiness of a decoded value (data.get(k) of an absent key is None)
Truthy(v) == (v.t = "str" /\ v.s # "") \/ (v.t \in {"num", "bool"} /\ v.n # 0)

PyOr(a, b) == IF Truthy(a) THEN a ELSE b

\* isinstance(v, (int, float))
IsNumber(v) == v.t \in {"num", "bool"}

Body(isDict, ratesT, items, base, from, result, base_code) ==
    [dict |-> isDict, ratesT |-> ratesT, items |-> items, base |-> base,
     from |-> from, result |-> result, base_code |-> base_code]

\* {"base": "EUR", "rates": {"EUR": 1.0, "USD": 1.1}}
BodyGeneric ==
    Body(TRUE, "dict", <<[k |-> "EUR", v |-> JNum(100)], [k |-> "USD", v |-> JNum(110)]>>,
         JStr("EUR"), JAbsent, JAbsent, JAbsent)

\* {"from": "usd", "rates": {"eur": 0.9, "gbp": "n/a"}}
BodyLower ==
    Body(TRUE, "dict", <<[k |-> "eur", v |-> JNum(90)], [k |-> "gbp", v |-> JStr("n/a")]>>,
         JAbsent, JStr("usd"), JAbsent, JAbsent)

\* {"result": "success", "base_code": "GBP", "rates": {"USD": 1.25}}
BodyAlt ==
    Body(TRUE, "dict", <<[k |-> "USD", v |-> JNum(125)]>>,
         JAbsent, JAbsent, JStr("success"), JStr("GBP"))

\* {"error": "rate limited"}: a mapping without "rates"
BodyNoRates ==
    Body(TRUE, "absent", <<>>, JAbsent, JAbsent, JAbsent, JAbsent)

\* a JSON array: not a mapping
BodyList ==
    Body(FALSE, "absent", <<>>, JAbsent, JAbsent, JAbsent, JAbsent)

Bodies == {BodyGeneric, BodyLower, BodyNoRates}

\* {k.upper(): float(v) for k, v in items if isinstance(v, (int, float))}
RECURSIVE NumericUpper(_)
NumericUpper(items) ==
    IF items = <<>> THEN EmptyTable
    ELSE LET n == Len(items)
             rest == NumericUpper(SubSeq(items, 1, n - 1))
             it == items[n]
         IN  IF IsNumber(it.v) THEN (Upper(it.k) :> it.v.n) @@ rest ELSE rest

\* rates[base] = 1.0
WithBase(rates, base) == (base :> ONE) @@ rates

ParseFailed == [ok |-> FALSE, base |-> "", rates |-> EmptyTable]

\* CurrencyConverter._parse_rates
ParseRates(data) ==
    IF ~data.dict THEN ParseFailed
    ELSE IF data.ratesT = "dict" THEN
        LET b == PyOr(PyOr(data.base, data.from), JStr(SEED_BASE))
            base == IF b.t = "str" THEN Upper(b.s) ELSE SEED_BASE
        IN  [ok |-> TRUE, base |-> base, rates |-> WithBase(NumericUpper(data.items), base)]
    ELSE IF data.result = JStr("success") /\ data.ratesT = "dict" THEN
        LET b == IF data.base_code.t = "absent" THEN JStr(SEED_BASE) ELSE data.base_code
            base == IF b.t = "str" THEN Upper(b.s) ELSE SEED_BASE
        IN  [ok |-> TRUE, base |-> base, rates |-> WithBase(NumericUpper(data.items), base)]
    ELSE ParseFailed

-----------------------------------------------------------------------------
(* The provider chain *)

\* what one request to one provider does
Failed(kind) == [kind |-> kind, data |-> BodyList]
Answered(data) == [kind |-> "json", data |-> data]

\* "network": requests.get raises; "status": raise_for_status raises;
\* "body": resp.json() raises; "json": a decoded body
Outcomes == {Failed("network"), Failed("status"), Failed("body")} \cup {Answered(d) : d \in Bodies}

\* a provider that is not requested has no outcome
Unasked == Failed("unasked")

\* the body of the try block for one provider: request, status, json, parse
TryProvider(o) == IF o.kind = "json" THEN ParseRates(o.data) ELSE ParseFailed

\* TryProvider, tabulated
AttemptTable == [o \in Outcomes \cup {Unasked} |-> TryProvider(o)]
Attempt(o) == AttemptTable[o]

\* what the providers do in one resolution: an outcome for each provider up to
\* the first that answers with a table, none for the providers after it
OutcomeRuns ==
    {o \in [1..Len(PROVIDERS) -> Outcomes \cup {Unasked}] :
        \A i \in 1..Len(PROVIDERS) :
            (o[i] = Unasked) <=> (\E j \in 1..(i - 1) : TryProvider(o[j]).ok)}

NoEntry == [present |-> FALSE, ts |-> 0, base |-> "", rates |-> EmptyTable]
Entry(ts, base, rates) == [present |-> TRUE, ts |-> ts, base |-> base, rates |-> rates]

\* ProviderLoop as it would be if a success did not end the loop: every
\* provider is requested and the last table found is returned
RECURSIVE ProviderLoopNoBreak(_, _, _, _)
ProviderLoopNoBreak(i, outcomes, requests, errors) ==
    IF i > Len(PROVIDERS) THEN
        [found |-> FALSE, raised |-> FALSE, base |-> "", rates |-> EmptyTable,
         requests |-> requests, errors |-> errors]
    ELSE IF Attempt(outcomes[i]).ok THEN
        [ProviderLoopNoBreak(i + 1, outcomes, Append(requests, PROVIDERS[i]), errors)
            EXCEPT !.found = TRUE,
                   !.base = IF @ = "" THEN Attempt(outcomes[i]).base ELSE @,
                   !.rates = IF @ = EmptyTable THEN Attempt(outcomes[i]).rates ELSE @]
    ELSE ProviderLoopNoBreak(i + 1, outcomes, Append(requests, PROVIDERS[i]),
                             Append(errors, PROVIDERS[i]))

\* the loop over PROVIDERS, from provider i on; requests and errors are the
\* requests issued and the errors recorded so far
RECURSIVE ProviderLoop(_, _, _, _)
ProviderLoop(i, outcomes, requests, errors) ==
    IF i > Len(PROVIDERS) THEN
        [found |-> FALSE, raised |-> FALSE, base |-> "", rates |-> EmptyTable,
         requests |-> requests, errors |-> errors]
    ELSE IF Attempt(outcomes[i]).ok THEN
        [found |-> TRUE, raised |-> FALSE, base |-> Attempt(outcomes[i]).base,
         rates |-> Attempt(outcomes[i]).rates,
         requests |-> Append(requests, PROVIDERS[i]), errors |-> errors]
    ELSE ProviderLoop(i + 1, outcomes, Append(requests, PROVIDERS[i]),
                      Append(errors, PROVIDERS[i]))

\* AfterLoop as it would be if chain exhaustion were raised to the caller
AfterLoopRaising(entry, p) ==
    IF p.found THEN p ELSE [p EXCEPT !.raised = TRUE]

\* AfterLoop as it would be if the cached table were not consulted
AfterLoopSeedOnly(entry, p) ==
    IF p.found THEN p ELSE [p EXCEPT !.base = SEED_BASE, !.rates = SEED_RATES]

\* after the loop: the first table found, else any cached table, else the seed
AfterLoop(entry, p) ==
    IF p.found THEN p
    ELSE IF entry.present THEN [p EXCEPT !.base = entry.base, !.rates = entry.rates]
    ELSE [p EXCEPT !.base = SEED_BASE, !.rates = SEED_RATES]

\* CurrencyConverter._try_fetch_from_providers
TryFetchFromProviders(entry, outcomes) ==
    AfterLoop(entry, ProviderLoop(1, outcomes, <<>>, <<>>))

-----------------------------------------------------------------------------
(* The cache and its file *)

NoFile == [state |-> "absent", entry |-> NoEntry]
BrokenFile == [state |-> "broken", entry |-> NoEntry]
File(entry) == [state |-> "valid", entry |-> entry]

\* CurrencyConverter._load_disk_cache: a missing or unreadable file is no cache
LoadDiskCache(file) == IF file.state = "valid" THEN file.entry ELSE NoEntry

\* how one write of the file ends: "written"; "refused" (makedirs or open
\* raises, the file is as before); "torn" (the file was truncated by open and
\* the dump did not complete)
WriteOutcomes == {"written", "refused", "torn"}

\* _save_disk_cache as it would be if it never wrote the file
SaveDiskCacheSkipped(entry, file, w) == file

\* CurrencyConverter._save_disk_cache: the exception is swallowed
SaveDiskCache(entry, file, w) ==
    CASE w = "written" -> File(entry)
      [] w = "refused" -> file
      [] w = "torn" -> BrokenFile

\* CurrencyConverter._is_fresh
IsFresh(entry, t, life) == entry.present /\ (t - entry.ts) < life

Result(raised, ret, c, f, requests, errors, saves) ==
    [raised |-> raised, ret |-> ret, cache |-> c, file |-> f,
     requests |-> requests, errors |-> errors, saves |-> saves]

\* self._cache["_single"] = {...}; self._save_disk_cache(); return rates
StoreAndReturn(file, t, w, r) ==
    Result(FALSE, r.rates, Entry(t, r.base, r.rates),
           SaveDiskCache(Entry(t, r.base, r.rates), file, w), r.requests, r.errors, 1)

\* fetch_rates once the entry is found not to be fresh; r is what
\* _try_fetch_from_providers did
Refresh(entry, file, t, life, w, r) ==
    IF entry.present /\ (t - entry.ts) < life * StaleFactor THEN
        IF r.raised THEN Result(FALSE, entry.rates, entry, file, r.requests, r.errors, 0)
        ELSE StoreAndReturn(file, t, w, r)
    ELSE
        IF r.raised THEN Result(TRUE, EmptyTable, entry, file, r.requests, r.errors, 0)
        ELSE StoreAndReturn(file, t, w, r)

\* fetch_rates as it would be without the freshness shortcut
FetchRatesAlwaysRefresh(entry, file, t, life, outcomes, w) ==
    Refresh(entry, file, t, life, w, TryFetchFromProviders(entry, outcomes))

\* CurrencyConverter.fetch_rates
FetchRates(entry, file, t, life, outcomes, w) ==
    IF IsFresh(entry, t, life) THEN
        Result(FALSE, entry.rates, entry, file, <<>>, <<>>, 0)
    ELSE Refresh(entry, file, t, life, w, TryFetchFromProviders(entry, outcomes))

-----------------------------------------------------------------------------
(* Observation of one call *)

\* the first provider of the list whose request yields a table (0: none does)
FirstAnswering(outcomes) ==
    IF \E i \in 1..Len(PROVIDERS) : TryProvider(outcomes[i]).ok
    THEN CHOOSE i \in 1..Len(PROVIDERS) :
            /\ TryProvider(outcomes[i]).ok
            /\ \A j \in 1..(i - 1) : ~TryProvider(outcomes[j]).ok
    ELSE 0

\* op: the call; raised, ret: how it ended; requests, errors: the providers
\* requested and the errors recorded, in order; saves: calls of
\* _save_disk_cache; write: how the file write ended; answering, answer: the
\* first provider able to answer and its table; pre, preFile: the cache entry
\* and the file when the call began
Idle ==
    [op |-> "none", raised |-> FALSE, ret |-> EmptyTable, requests |-> <<>>,
     errors |-> <<>>, saves |-> 0, write |-> "none", answering |-> 0,
     answer |-> ParseFailed, pre |-> NoEntry, preFile |-> NoFile]

-----------------------------------------------------------------------------
(* Transactions: rows, optimistic records, frames *)

\* the number of rows the two queries of a read return at most; stands for
\* limit(500)
RecentLimit == 2

\* None, for a string column
NoneStr == "<None>"

\* s or d, for a string (None and "" are falsy)
StrOr(s, d) == IF s = NoneStr \/ s = "" THEN d ELSE s

\* amounts after conversion are exact fractions num/den, whole numbers having
\* den = 1; den = 0 is None
Ratio(n, d) ==
    IF d # 0 /\ n % d = 0 THEN [num |-> n \div d, den |-> 1]
    ELSE [num |-> n, den |-> d]
NoAmount == [num |-> 0, den |-> 0]
Whole(n) == [num |-> n, den |-> 1]

\* a datetime: the day and the time of day; time.min is 0
DateTime(day, tod) == [day |-> day, tod |-> tod]

\* datetime.date()
DateOnly(d) == d.day

DateBefore(a, b) == a.day < b.day \/ (a.day = b.day /\ a.tod < b.tod)

\* a row of the transactions table, an optimistic record, a row of a frame;
\* id 0 is None
Row(id, date, amount, currency, amount_eur, category, kind, description) ==
    [id |-> id, date |-> date, amount |-> amount, currency |-> currency,
     amount_eur |-> amount_eur, category |-> category, kind |-> kind,
     description |-> description]

\* build_optimistic
BuildOptimistic(date, amount, currency, amount_eur, category, kind, description) ==
    Row(0, date, amount, Upper(StrOr(currency, "EUR")),
        amount_eur,
        StrOr(category, "Uncategorized"), Lower(StrOr(kind, "expense")),
        StrOr(description, ""))

\* the signature reconcile_with_db computes for a stored row and for a record
ReconcileSig(x) ==
    <<DateOnly(x.date), x.amount, Upper(StrOr(x.currency, "")),
      StrOr(x.description, ""), StrOr(x.category, ""), Lower(StrOr(x.kind, ""))>>

\* reconcile_with_db as it would be if it compared the whole datetime
ReconcileWithDbFullDate(buffer, rows) ==
    SelectSeq(buffer, LAMBDA o :
        \A i \in 1..Len(rows) :
            <<o.date, ReconcileSig(o)>> # <<rows[i].date, ReconcileSig(rows[i])>>)

\* reconcile_with_db: the new buffer, rows being what the query returned
ReconcileWithDb(buffer, rows) ==
    IF buffer = <<>> THEN buffer
    ELSE SelectSeq(buffer, LAMBDA o :
            ReconcileSig(o) \notin {ReconcileSig(rows[i]) : i \in 1..Len(rows)})

\* render_table: the frame built from the rows of the query
DbFrameRow(r) ==
    Row(r.id, r.date, r.amount, Upper(StrOr(r.currency, "")),
        IF r.amount_eur.den = 0 THEN Whole(0) ELSE r.amount_eur,
        StrOr(r.category, "Uncategorized"), Lower(StrOr(r.kind, "expense")),
        StrOr(r.description, ""))

DbFrame(rows) == [i \in 1..Len(rows) |-> DbFrameRow(rows[i])]

\* the columns drop_duplicates compares
MergeSig(x) == <<x.date, x.amount, x.currency, x.category, x.kind, x.description>>

\* DataFrame.drop_duplicates(subset, keep="first")
DropDuplicates(frame) ==
    LET keep == {i \in 1..Len(frame) :
                    \A j \in 1..(i - 1) : MergeSig(frame[j]) # MergeSig(frame[i])}
        F[i \in 0..Len(frame)] ==
            IF i = 0 THEN <<>>
            ELSE IF i \in keep THEN Append(F[i - 1], frame[i]) ELSE F[i - 1]
    IN  F[Len(frame)]

\* DataFrame.drop_duplicates(subset, keep="last")
DropDuplicatesKeepLast(frame) ==
    LET keep == {i \in 1..Len(frame) :
                    \A j \in (i + 1)..Len(frame) : MergeSig(frame[j]) # MergeSig(frame[i])}
        F[i \in 0..Len(frame)] ==
            IF i = 0 THEN <<>>
            ELSE IF i \in keep THEN Append(F[i - 1], frame[i]) ELSE F[i - 1]
    IN  F[Len(frame)]

\* merge_frames as it would be with keep="last"
MergeFramesKeepLast(opt_df, db_df) ==
    IF opt_df # <<>> /\ db_df # <<>> THEN DropDuplicatesKeepLast(opt_df \o db_df)
    ELSE IF opt_df # <<>> THEN opt_df
    ELSE db_df

\* merge_frames
MergeFrames(opt_df, db_df) ==
    IF opt_df # <<>> /\ db_df # <<>> THEN DropDuplicates(opt_df \o db_df)
    ELSE IF opt_df # <<>> THEN opt_df
    ELSE db_df

\* query(Transaction).order_by(Transaction.date.desc()).limit(n).all(): the
\* results the query may return, as sequences of positions in the table (rows
\* of equal date come in no defined order)
RecentPositions(rows, n) ==
    LET k == IF Len(rows) < n THEN Len(rows) ELSE n
    IN  {q \in [1..k -> 1..Len(rows)] :
            /\ \A a, b \in 1..k : a < b =>
                    /\ q[a] # q[b]
                    /\ ~DateBefore(rows[q[a]].date, rows[q[b]].date)
            /\ \A a \in 1..k, j \in 1..Len(rows) :
                    (\A b \in 1..k : q[b] # j) =>
                        ~DateBefore(rows[q[a]].date, rows[j].date)}

RecentRows(rows, n) ==
    {[a \in DOMAIN q |-> rows[q[a]]] : q \in RecentPositions(rows, n)}

\* dict.get(key, default) on a rate table
Rate(shared, key, default) == IF key \in DOMAIN shared THEN shared[key] ELSE default

\* to_eur without its `if currency == "EUR"` line
ToEurNoBaseCase(shared, amount, currency) ==
    LET cur == Upper(StrOr(currency, "EUR"))
        r_from == Rate(shared, cur, 0)
        r_to_eur == Rate(shared, "EUR", ONE)
    IN  IF cur \in DOMAIN shared /\ r_from # 0 THEN Ratio(amount * r_to_eur, r_from)
        ELSE NoAmount

\* to_eur
ToEur(shared, amount, currency) ==
    LET cur == Upper(StrOr(currency, "EUR"))
        r_from == Rate(shared, cur, 0)
        r_to_eur == Rate(shared, "EUR", ONE)
    IN  IF cur \in DOMAIN shared /\ r_from # 0 THEN Ratio(amount * r_to_eur, r_from)
        ELSE IF cur = "EUR" THEN Whole(amount)
        ELSE NoAmount

\* shared.get(key, default) on a table whose values are decoded values
GetOr(shared, key, default) == IF key \in DOMAIN shared THEN shared[key] ELSE default

\* eur_factor: the factor as a fraction
EurFactor(shared, to_currency) ==
    IF /\ IsNumber(GetOr(shared, Upper(to_currency), JNull))
       /\ IsNumber(GetOr(shared, "EUR", JNum(ONE)))
       /\ GetOr(shared, "EUR", JNum(ONE)).n # 0
    THEN Ratio(GetOr(shared, Upper(to_currency), JNull).n, GetOr(shared, "EUR", JNum(ONE)).n)
    ELSE Whole(1)

\* ensure_amount_eur_column_and_backfill: one row, rates being the table of
\* fetch_rates (a zero rate raises and the row is skipped)
BackfillRow(row, rates) ==
    LET curr == Upper(StrOr(row.currency, "EUR"))
    IN  IF row.amount_eur # NoAmount THEN row
        ELSE IF curr \in DOMAIN rates
        THEN IF rates[curr] = 0 THEN row
             ELSE [row EXCEPT !.amount_eur =
                        Ratio(row.amount * Rate(rates, "EUR", ONE), rates[curr])]
        ELSE IF curr = "EUR" THEN [row EXCEPT !.amount_eur = Whole(row.amount)]
        ELSE row

\* ensure_amount_eur_column_and_backfill: nothing is done without rates
Backfill(rows, rates) ==
    IF DOMAIN rates = {} THEN rows
    ELSE [i \in 1..Len(rows) |-> BackfillRow(rows[i], rates)]

\* rate tables get_shared_rates and fetch_rates may hand out
EurOnly == ("EUR" :> ONE)
ZeroUsd == ("EUR" :> ONE) @@ ("USD" :> 0)
RateTables == {SEED_RATES, EurOnly, ZeroUsd}

\* what the add-transaction form submits
Form(d, amt, cur, cat_choice, custom_cat, kind, desc) ==
    [d |-> d, amt |-> amt, cur |-> cur, cat_choice |-> cat_choice,
     custom_cat |-> custom_cat, kind |-> kind, desc |-> desc]

Forms ==
    {Form(1, 5, "EUR", "General", "", "expense", "rent"),
     Form(2, 5, " usd", "General", "", "expense", ""),
     Form(1, 5, " ", "Other (custom)", " ", "income", ""),
     Form(1, 0, "", "Other (custom)", "Pets", "expense", "rent")}

\* show_add_tx: currency = (cur or "EUR").upper().strip()
FormCurrency(cur) == Strip(Upper(StrOr(cur, "EUR")))

\* show_add_tx: the final category value
FormCategory(cat_choice, custom_cat) ==
    IF StrOr(Strip(custom_cat), StrOr(cat_choice, "Uncategorized")) = "Other (custom)"
    THEN "Uncategorized"
    ELSE StrOr(Strip(custom_cat), StrOr(cat_choice, "Uncategorized"))

\* get_shared_rates: the table it returns, or an exception
FxOutcomes ==
    {[raised |-> FALSE, shared |-> t] : t \in RateTables}
        \cup {[raised |-> TRUE, shared |-> EmptyTable]}

\* show_add_tx: amount_eur, fx being the outcome of get_shared_rates
FormAmountEur(fx, amount, currency) ==
    IF fx.raised THEN (IF currency = "EUR" THEN Whole(amount) ELSE NoAmount)
    ELSE IF ToEur(fx.shared, amount, currency) = NoAmount /\ currency = "EUR"
    THEN Whole(amount)
    ELSE ToEur(fx.shared, amount, currency)

\* show_add_tx: the Transaction added to the session
FormRow(id, f, fx) ==
    Row(id, DateTime(f.d, 0), f.amt, FormCurrency(f.cur),
        FormAmountEur(fx, f.amt, FormCurrency(f.cur)),
        FormCategory(f.cat_choice, f.custom_cat), f.kind, f.desc)

\* show_add_tx: the record appended to the buffer
FormOptimistic(f, fx) ==
    BuildOptimistic(DateTime(f.d, 0), f.amt, FormCurrency(f.cur),
                    FormAmountEur(fx, f.amt, FormCurrency(f.cur)),
                    FormCategory(f.cat_choice, f.custom_cat), f.kind, f.desc)

\* op: the operation; ok: whether it succeeded; pre: the buffer before it;
\* rows: the rows its query returned
Did(op, ok, pre, rows) == [op |-> op, ok |-> ok, pre |-> pre, rows |-> rows]

\* no function is being applied
NoCall == [fn |-> "none", args |-> <<>>, done |-> FALSE, out |-> <<>>]

InitTx ==
    /\ store = <<>>
    /\ optimistic_tx = <<>>
    /\ view = <<>>
    /\ lastTx = Did("none", TRUE, <<>>, <<>>)
    /\ call = NoCall

-----------------------------------------------------------------------------
(* CurrencyConverter.convert *)

\* a table as convert may be handed one: currency -> decoded value
Lift(t) == [k \in DOMAIN t |-> JNum(t[k])]

\* the rates argument: not passed (None), or a table; base is the base the
\* caller's table was resolved with, which convert is not told
Override(given, base, table) == [given |-> given, base |-> base, table |-> table]

\* fetch_rates was not called: nothing requested, cache and file as they were
Untouched(entry, file) ==
    [calls |-> 0, r |-> Result(FALSE, EmptyTable, entry, file, <<>>, <<>>, 0)]

\* fetch_rates was called once and did r
Called(r) == [calls |-> 1, r |-> r]

\* kind: "none" (a number is returned), "MissingRate" (CurrencyAPIError) or
\* "ZeroDivisionError"; named and base: what the error message names
ConvOut(kind, ret, named, base, fetch) ==
    [raised |-> kind, ret |-> ret, named |-> named, base |-> base, fetch |-> fetch]

\* convert._get: the rate of sym, or None
Get(rates, sym) ==
    IF Strip(Upper(sym)) \in DOMAIN rates /\ IsNumber(rates[Strip(Upper(sym))])
    THEN rates[Strip(Upper(sym))]
    ELSE JNull

\* get_base after the call of fetch_rates it makes when there is no entry
BaseAfter(r) == IF r.cache.present THEN r.cache.base ELSE SEED_BASE

\* get_base as it would be if it always answered SEED_BASE
GetBaseSeedOnly(entry, file, t, life, outcomes, w) ==
    [base |-> SEED_BASE, fetch |-> Untouched(entry, file)]

\* get_base: the entry's base, after one call of fetch_rates when there is
\* no entry
GetBase(entry, file, t, life, outcomes, w) ==
    IF entry.present THEN [base |-> entry.base, fetch |-> Untouched(entry, file)]
    ELSE [base |-> BaseAfter(FetchRates(entry, file, t, life, outcomes, w)),
          fetch |-> Called(FetchRates(entry, file, t, life, outcomes, w))]

\* raise CurrencyAPIError(... sym ... self.get_base() ...)
MissingRate(sym, fetch, t, life, outcomes, w) ==
    IF fetch.r.cache.present
    THEN ConvOut("MissingRate", NoAmount, sym, fetch.r.cache.base, fetch)
    ELSE ConvOut("MissingRate", NoAmount, sym,
                 BaseAfter(FetchRates(fetch.r.cache, fetch.r.file, t, life, outcomes, w)),
                 [calls |-> fetch.calls + 1,
                  r |-> FetchRates(fetch.r.cache, fetch.r.file, t, life, outcomes, w)])

\* convert from the lookups on: lines 177-183
ConvertWith(rates, amount, from, to, fetch, t, life, outcomes, w) ==
    IF Get(rates, from) = JNull THEN MissingRate(from, fetch, t, life, outcomes, w)
    ELSE IF Get(rates, to) = JNull THEN MissingRate(to, fetch, t, life, outcomes, w)
    ELSE IF Get(rates, from).n = 0 THEN ConvOut("ZeroDivisionError", NoAmount, "", "", fetch)
    ELSE ConvOut("none", Ratio(amount.n * Get(rates, to).n, Get(rates, from).n), "", "", fetch)

\* convert with rates = self.fetch_rates()
ConvertFetched(r, amount, from, to, t, life, outcomes, w) ==
    ConvertWith(Lift(r.ret), amount, from, to, Called(r), t, life, outcomes, w)

\* convert as it would be if it resolved the table before anything else
ConvertFetchFirst(amount, from_currency, to_currency, rates, entry, file, t, life, outcomes, w) ==
    IF amount = JNull
    THEN ConvOut("none", Whole(0), "", "", Called(FetchRates(entry, file, t, life, outcomes, w)))
    ELSE IF Upper(StrOr(from_currency, "USD")) = Upper(StrOr(to_currency, "USD"))
    THEN ConvOut("none", Whole(amount.n), "", "",
                 Called(FetchRates(entry, file, t, life, outcomes, w)))
    ELSE ConvertFetched(FetchRates(entry, file, t, life, outcomes, w), amount,
                        Upper(StrOr(from_currency, "USD")), Upper(StrOr(to_currency, "USD")),
                        t, life, outcomes, w)

\* CurrencyConverter.convert, on a converter whose entry and file are given
Convert(amount, from_currency, to_currency, rates, entry, file, t, life, outcomes, w) ==
    IF amount = JNull THEN ConvOut("none", Whole(0), "", "", Untouched(entry, file))
    ELSE IF Upper(StrOr(from_currency, "USD")) = Upper(StrOr(to_currency, "USD"))
    THEN ConvOut("none", Whole(amount.n), "", "", Untouched(entry, file))
    ELSE IF rates.given /\ DOMAIN rates.table # {}
    THEN ConvertWith(rates.table, amount,
                     Upper(StrOr(from_currency, "USD")), Upper(StrOr(to_currency, "USD")),
                     Untouched(entry, file), t, life, outcomes, w)
    ELSE ConvertFetched(FetchRates(entry, file, t, life, outcomes, w), amount,
                        Upper(StrOr(from_currency, "USD")), Upper(StrOr(to_currency, "USD")),
                        t, life, outcomes, w)

-----------------------------------------------------------------------------
(* Rate resolution as a state machine *)

InitRates ==
    /\ now = 0
    /\ ttl \in 1..MaxTTL
    /\ disk \in {NoFile, BrokenFile}
    /\ cache = LoadDiskCache(disk)
    /\ last = Idle

Init == InitRates /\ InitTx

\* the observation of a fetch_rates call that did r, the first provider able
\* to answer being the k-th
Observed(r, k, outcomes, w, entry, file) ==
    [op |-> "fetch_rates", raised |-> r.raised, ret |-> r.ret,
     requests |-> r.requests, errors |-> r.errors, saves |-> r.saves,
     write |-> IF r.saves = 0 THEN "none" ELSE w,
     answering |-> k,
     answer |-> IF k = 0 THEN ParseFailed ELSE TryProvider(outcomes[k]),
     pre |-> entry, preFile |-> file]

FetchRatesDone(r, k, outcomes, w) ==
    /\ cache' = r.cache
    /\ disk' = r.file
    /\ last' = Observed(r, k, outcomes, w, cache, disk)

\* one call of fetch_rates
FetchRatesCall ==
    /\ last.op = "none"
    /\ \E outcomes \in OutcomeRuns, w \in WriteOutcomes :
            FetchRatesDone(FetchRates(cache, disk, now, ttl, outcomes, w),
                           FirstAnswering(outcomes), outcomes, w)
    /\ UNCHANGED <<now, ttl>>
    /\ UNCHANGED <<txVars, call>>

\* the observation of a get_base call that did g
BaseObserved(g, entry, file) ==
    [op |-> "get_base", base |-> g.base, calls |-> g.fetch.calls,
     raised |-> g.fetch.r.raised, ret |-> g.fetch.r.ret,
     requests |-> g.fetch.r.requests, pre |-> entry, preFile |-> file]

GetBaseDone(g) ==
    /\ cache' = g.fetch.r.cache
    /\ disk' = g.fetch.r.file
    /\ last' = BaseObserved(g, cache, disk)

\* one call of get_base; the providers are asked only when there is no entry
GetBaseCall ==
    /\ last.op = "none"
    /\ \E outcomes \in (IF cache.present THEN {[i \in 1..Len(PROVIDERS) |-> Unasked]}
                         ELSE OutcomeRuns),
          w \in (IF cache.present THEN {"refused"} ELSE WriteOutcomes) :
            GetBaseDone(GetBase(cache, disk, now, ttl, outcomes, w))
    /\ UNCHANGED <<now, ttl>>
    /\ UNCHANGED <<txVars, call>>

\* a script rerun constructs a new CurrencyConverter on the same cache path
Construct ==
    /\ cache' = LoadDiskCache(disk)
    /\ last' = Idle
    /\ UNCHANGED <<now, ttl, disk>>
    /\ UNCHANGED <<txVars, call>>

\* the caller takes the result of the call
Return ==
    /\ last.op # "none"
    /\ last' = Idle
    /\ UNCHANGED <<now, ttl, cache, disk>>
    /\ UNCHANGED <<txVars, call>>

\* time passes
Tick ==
    /\ now < MaxNow
    /\ now' = now + 1
    /\ last' = Idle
    /\ UNCHANGED <<ttl, cache, disk>>
    /\ UNCHANGED <<txVars, call>>

Next == FetchRatesCall \/ GetBaseCall \/ Return \/ Construct \/ Tick

Spec == Init /\ [][Next]_vars

-----------------------------------------------------------------------------
(* The transactions page as a state machine *)

\* the most rows the table gets
MaxRows == 3

\* the converter is left alone
RatesAtRest ==
    /\ now = 0
    /\ ttl = 1
    /\ disk = NoFile
    /\ cache = NoEntry
    /\ last = Idle

\* st.rerun() was called and the script has not run again yet
RerunPending == lastTx.op \in {"add", "session"} /\ lastTx.ok

\* one run of the script: the backfill, then render_table (reconcile_with_db
\* with its query, the query of the table, merge_frames); the two queries are
\* the same statement on the same unchanged session and return the same rows
Read ==
    /\ \E rates \in RateTables :
       \E rows \in RecentRows(Backfill(store, rates), RecentLimit) :
            /\ store' = Backfill(store, rates)
            /\ optimistic_tx' = ReconcileWithDb(optimistic_tx, rows)
            /\ view' = MergeFrames(ReconcileWithDb(optimistic_tx, rows), DbFrame(rows))
            /\ lastTx' = Did("read", TRUE, optimistic_tx, rows)
    /\ UNCHANGED <<rateVars, call>>

\* show_add_tx as it would be if the record were appended before the commit
AddTxAppendFirst ==
    /\ ~RerunPending
    /\ Len(store) < MaxRows
    /\ \E f \in Forms, fx \in FxOutcomes, committed \in BOOLEAN :
            /\ optimistic_tx' = Append(optimistic_tx, FormOptimistic(f, fx))
            /\ IF committed
               THEN /\ store' = Append(store, FormRow(Len(store) + 1, f, fx))
                    /\ lastTx' = Did("add", TRUE, optimistic_tx, <<>>)
               ELSE /\ UNCHANGED store
                    /\ lastTx' = Did("add", FALSE, optimistic_tx, <<>>)
    /\ UNCHANGED view
    /\ UNCHANGED <<rateVars, call>>

\* show_add_tx with "Save transaction" pressed: commit, then the optimistic
\* record and st.rerun(); a failing commit rolls back and leaves the buffer
AddTx ==
    /\ ~RerunPending
    /\ Len(store) < MaxRows
    /\ \E f \in Forms, fx \in FxOutcomes, committed \in BOOLEAN :
            IF committed
            THEN /\ store' = Append(store, FormRow(Len(store) + 1, f, fx))
                 /\ optimistic_tx' = Append(optimistic_tx, FormOptimistic(f, fx))
                 /\ lastTx' = Did("add", TRUE, optimistic_tx, <<>>)
            ELSE /\ UNCHANGED <<store, optimistic_tx>>
                 /\ lastTx' = Did("add", FALSE, optimistic_tx, <<>>)
    /\ UNCHANGED view
    /\ UNCHANGED <<rateVars, call>>

\* init_session_state in a new browser session: the buffer starts empty
NewSession ==
    /\ ~RerunPending
    /\ optimistic_tx # <<>>
    /\ optimistic_tx' = <<>>
    /\ lastTx' = Did("session", TRUE, optimistic_tx, <<>>)
    /\ UNCHANGED <<store, view>>
    /\ UNCHANGED <<rateVars, call>>

InitPage == RatesAtRest /\ InitTx

NextTx == Read \/ AddTx \/ NewSession

SpecTx == InitPage /\ [][NextTx]_vars

-----------------------------------------------------------------------------
(* reconcile_with_db and merge_frames over drawn buffers and tables *)

\* the longest buffer and the largest table drawn
MaxOpt == 2
MaxDb == 3

\* records a buffer is drawn from
OptRows ==
    {Row(0, DateTime(1, 0), 5, "EUR", Whole(5), "General", "expense", "rent"),
     Row(0, DateTime(1, 1), 5, "EUR", Whole(5), "General", "expense", "rent"),
     Row(0, DateTime(2, 0), 5, "USD", NoAmount, "Uncategorized", "income", ""),
     Row(0, DateTime(1, 0), 5, "eur", Whole(5), "General", "Expense", "rent")}

\* rows a table is drawn from, by id
DbRows ==
    <<Row(1, DateTime(1, 0), 5, "EUR", Whole(5), "General", "expense", "rent"),
      Row(2, DateTime(1, 1), 5, "eur", Whole(5), "General", "Expense", "rent"),
      Row(3, DateTime(2, 0), 5, "USD", NoAmount, NoneStr, "income", NoneStr),
      Row(4, DateTime(1, 0), 5, "EUR", Whole(5), "General", "expense", "rent"),
      Row(5, DateTime(2, 0), 7, "GBP", Ratio(700, 85), "Food & Dining", "expense", "lunch")>>

Buffers == UNION {[1..n -> OptRows] : n \in 0..MaxOpt}

\* tables hold their rows by ascending id
Tables ==
    {t \in UNION {[1..n -> {DbRows[i] : i \in DOMAIN DbRows}] : n \in 0..MaxDb} :
        \A a, b \in DOMAIN t : a < b => t[a].id < t[b].id}

InitFrames ==
    /\ RatesAtRest
    /\ optimistic_tx \in Buffers
    /\ store \in Tables
    /\ view = <<>>
    /\ lastTx = Did("none", TRUE, <<>>, <<>>)
    /\ call = NoCall

\* reconcile_with_db on the drawn buffer and table
ReconcileApply ==
    /\ lastTx.op = "none"
    /\ \E rows \in RecentRows(store, RecentLimit) :
            /\ optimistic_tx' = ReconcileWithDb(optimistic_tx, rows)
            /\ lastTx' = Did("reconcile", TRUE, optimistic_tx, rows)
    /\ UNCHANGED <<store, view>>
    /\ UNCHANGED <<rateVars, call>>

\* merge_frames on the frame of the buffer and the frame of the table's rows
MergeApply ==
    /\ lastTx.op \in {"none", "reconcile"}
    /\ \E rows \in RecentRows(store, RecentLimit) :
            /\ view' = MergeFrames(optimistic_tx, DbFrame(rows))
            /\ lastTx' = Did("merge", TRUE, optimistic_tx, DbFrame(rows))
    /\ UNCHANGED <<store, optimistic_tx>>
    /\ UNCHANGED <<rateVars, call>>

NextFrames == ReconcileApply \/ MergeApply

SpecFrames == InitFrames /\ [][NextFrames]_vars

-----------------------------------------------------------------------------
(* convert on converters with and without a cached table *)

\* a table resolved with base USD
UsdTable == ("USD" :> ONE) @@ ("EUR" :> 90) @@ ("GBP" :> 80)

\* the amounts, currency codes and rates arguments convert is called with
Amounts == {JNull, JNum(0), JNum(5)}
Codes == {"usd", "USD", "EUR", "XXX", NoneStr}
Overrides ==
    {Override(FALSE, "", EmptyTable),
     Override(TRUE, "EUR", EmptyTable),
     Override(TRUE, "EUR", ("EUR" :> JNum(ONE)) @@ ("USD" :> JNum(110))),
     Override(TRUE, "EUR", ("EUR" :> JNum(ONE)) @@ ("USD" :> JNum(0))),
     Override(TRUE, "EUR", ("EUR" :> JNum(ONE)) @@ ("USD" :> JStr("n/a")))}

\* what the providers do during one call of convert: all down, the first
\* answering, the third answering after two failures
ConvertRuns ==
    {o \in OutcomeRuns :
        \/ \A i \in 1..3 : o[i] = Failed("network")
        \/ o[1] = Answered(BodyGeneric)
        \/ (o[1] = Failed("status") /\ o[2] = Failed("body") /\ o[3] = Answered(BodyLower))}

\* the entry a converter may start with: none, or a table of base USD stored
\* at time 0
InitConvert ==
    /\ now \in {0, 1, MaxNow}
    /\ ttl = 1
    /\ cache \in {NoEntry, Entry(0, "USD", UsdTable)}
    /\ disk = (IF cache.present THEN File(cache) ELSE NoFile)
    /\ last = Idle
    /\ InitTx

\* one call of convert
ConvertCall ==
    /\ call.fn = "none"
    /\ \E amount \in Amounts, from_currency \in Codes, to_currency \in Codes,
          rates \in Overrides, outcomes \in ConvertRuns, w \in {"written", "refused"} :
            /\ call' = [fn |-> "convert",
                        args |-> [amount |-> amount, from |-> from_currency,
                                  to |-> to_currency, rates |-> rates,
                                  entry |-> cache, file |-> disk],
                        done |-> TRUE,
                        out |-> Convert(amount, from_currency, to_currency, rates,
                                        cache, disk, now, ttl, outcomes, w)]
            /\ cache' = Convert(amount, from_currency, to_currency, rates,
                                cache, disk, now, ttl, outcomes, w).fetch.r.cache
            /\ disk' = Convert(amount, from_currency, to_currency, rates,
                               cache, disk, now, ttl, outcomes, w).fetch.r.file
    /\ UNCHANGED <<now, ttl, last>>
    /\ UNCHANGED txVars

\* the caller takes the result
ConvertReturn ==
    /\ call.fn = "convert"
    /\ call' = NoCall
    /\ UNCHANGED <<rateVars, txVars>>

NextConvert == ConvertCall \/ ConvertReturn

SpecConvert == InitConvert /\ [][NextConvert]_vars

-----------------------------------------------------------------------------
(* _parse_rates over drawn response bodies *)

\* the most entries of the "rates" mapping of a drawn body
MaxItems == 2

\* entries of "rates": lower- and upper-case keys; a number, a string, null
\* and true as values
RateItems ==
    {[k |-> "usd", v |-> JNum(110)], [k |-> "EUR", v |-> JNum(90)],
     [k |-> "GBP", v |-> JStr("n/a")], [k |-> "gbp", v |-> JBool(TRUE)],
     [k |-> "USD", v |-> JNull]}

ItemLists == UNION {[1..n -> RateItems] : n \in 0..MaxItems}

\* decoded bodies: mappings with "rates" a mapping or absent and the base fields
\* absent, strings or other values; and a body that is not a mapping
ParseBodies ==
    {Body(TRUE, ratesT, items, base, from, result, base_code) :
        ratesT \in {"dict"}, items \in ItemLists,
        base \in {JAbsent, JNull, JStr(""), JStr("usd"), JNum(1)},
        from \in {JAbsent, JStr("gbp")},
        result \in {JAbsent, JStr("success")},
        base_code \in {JAbsent, JStr("gbp"), JNum(7)}}
    \cup {Body(TRUE, "absent", <<>>, base, JAbsent, result, base_code) :
            base \in {JAbsent, JStr("usd")},
            result \in {JAbsent, JStr("success")},
            base_code \in {JAbsent, JStr("gbp")}}
    \cup {BodyList, BodyAlt, BodyGeneric, BodyLower}

InitParse ==
    /\ RatesAtRest
    /\ store = <<>>
    /\ optimistic_tx = <<>>
    /\ view = <<>>
    /\ lastTx = Did("none", TRUE, <<>>, <<>>)
    /\ call \in {[fn |-> "_parse_rates", args |-> data, done |-> FALSE, out |-> <<>>] :
                    data \in ParseBodies}

\* _parse_rates applied to the drawn body
ParseApply ==
    /\ call.fn = "_parse_rates"
    /\ ~call.done
    /\ call' = [call EXCEPT !.done = TRUE, !.out = ParseRates(call.args)]
    /\ UNCHANGED <<rateVars, txVars>>

NextParse == ParseApply

SpecParse == InitParse /\ [][NextParse]_vars

-----------------------------------------------------------------------------
(* A converter constructed on cache files of any content *)

\* the value under "_single" as json.load returns it: t is its type ("absent"
\* when the key is missing), truthy its truth value, and for a mapping ts,
\* rates (ratesT "dict" or "absent") and base are its keys
RawEntry(t, truthy, ts, ratesT, rates, base) ==
    [t |-> t, truthy |-> truthy, ts |-> ts, ratesT |-> ratesT, rates |-> rates,
     base |-> base]

RawScalar(t, truthy) == RawEntry(t, truthy, JAbsent, "absent", EmptyTable, JAbsent)

\* the file at cache_path: state "absent", "unreadable" (open raises),
\* "invalid" (json.load raises) or "ok" with top the type of the document
RawFile(state, top, single) == [state |-> state, top |-> top, single |-> single]

RawFiles ==
    {RawFile("absent", "dict", RawScalar("absent", FALSE)),
     RawFile("unreadable", "dict", RawScalar("absent", FALSE)),
     RawFile("invalid", "dict", RawScalar("absent", FALSE)),
     RawFile("ok", "list", RawScalar("absent", FALSE)),
     RawFile("ok", "dict", RawScalar("absent", FALSE)),
     RawFile("ok", "dict", RawScalar("null", FALSE)),
     RawFile("ok", "dict", RawScalar("str", TRUE)),
     RawFile("ok", "dict", RawScalar("list", TRUE)),
     RawFile("ok", "dict", RawScalar("dict", FALSE)),
     RawFile("ok", "dict", RawEntry("dict", TRUE, JAbsent, "dict", UsdTable, JStr("USD"))),
     RawFile("ok", "dict", RawEntry("dict", TRUE, JNum(0), "absent", EmptyTable, JStr("USD"))),
     RawFile("ok", "dict", RawEntry("dict", TRUE, JStr("today"), "dict", UsdTable, JStr("USD"))),
     RawFile("ok", "dict", RawEntry("dict", TRUE, JNull, "dict", UsdTable, JStr("USD"))),
     RawFile("ok", "dict", RawEntry("dict", TRUE, JNum(0), "dict", UsdTable, JAbsent)),
     RawFile("ok", "dict", RawEntry("dict", TRUE, JNum(0), "dict", UsdTable, JStr("USD")))}

\* _load_disk_cache followed by self._cache.get("_single")
RawLoad(file) ==
    IF file.state = "ok" /\ file.top = "dict" THEN file.single
    ELSE RawScalar("absent", FALSE)

\* the entry has the structure fetch_rates stores
WellFormed(e) ==
    e.t = "dict" /\ e.ts.t = "num" /\ e.ratesT = "dict" /\ e.base.t = "str"

\* the entry as the code after _is_fresh sees it: a falsy value and a mapping
\* without rates mapping are no entry; a missing base reads as SEED_BASE; a
\* missing ts reads as 0, the epoch, which time.time() is further from than
\* ttl * 12
AsEntry(e, t, life) ==
    IF ~e.truthy \/ e.ratesT # "dict" THEN NoEntry
    ELSE Entry(IF e.ts.t = "num" THEN e.ts.n ELSE t - life * StaleFactor,
               IF e.base.t = "str" THEN e.base.s ELSE SEED_BASE,
               e.rates)

\* a call that raised error kind, nothing being changed
RawRaised(kind, file) ==
    [error |-> kind, r |-> Result(TRUE, EmptyTable, NoEntry, file, <<>>, <<>>, 0)]

RawReturned(r) == [error |-> "none", r |-> r]

\* fetch_rates on the loaded entry e: entry.get of a value that is no mapping
\* raises AttributeError, time.time() - ts of a ts that is no number raises
\* TypeError, ["rates"] of a fresh entry without rates raises KeyError
RawFetchRates(e, file, t, life, outcomes, w) ==
    IF ~e.truthy THEN RawReturned(FetchRates(NoEntry, file, t, life, outcomes, w))
    ELSE IF e.t # "dict" THEN RawRaised("AttributeError", file)
    ELSE IF e.ts.t \notin {"absent", "num", "bool"} THEN RawRaised("TypeError", file)
    ELSE IF e.ts.t # "absent" /\ (t - e.ts.n) < life /\ e.ratesT # "dict"
    THEN RawRaised("KeyError", file)
    ELSE RawReturned(FetchRates(AsEntry(e, t, life), file, t, life, outcomes, w))

\* get_base on the loaded entry e: "base" in entry of a mapping; of another
\* truthy value the test or the subscript raises TypeError, or fetch_rates
\* raises
RawGetBase(e, file, t, life, outcomes, w) ==
    IF e.truthy /\ e.t = "dict" /\ e.base.t # "absent"
    THEN [error |-> "none", base |-> e.base,
          r |-> Result(FALSE, EmptyTable, AsEntry(e, t, life), file, <<>>, <<>>, 0)]
    ELSE IF e.truthy /\ e.t = "list"
    THEN [error |-> "TypeError", base |-> JAbsent, r |-> RawRaised("TypeError", file).r]
    ELSE [error |-> RawFetchRates(e, file, t, life, outcomes, w).error,
          base |-> JStr(BaseAfter(RawFetchRates(e, file, t, life, outcomes, w).r)),
          r |-> RawFetchRates(e, file, t, life, outcomes, w).r]

InitCacheFile ==
    /\ now \in {0, MaxNow}
    /\ ttl = 1
    /\ disk \in RawFiles
    /\ cache = RawLoad(disk)
    /\ last = Idle
    /\ InitTx

\* the written file as it would be if json.dump left the ts of the entry out
RawWrittenWithoutTs(file) ==
    IF file.state = "valid"
    THEN RawFile("ok", "dict",
                 RawEntry("dict", TRUE, JAbsent, "dict", file.entry.rates,
                          JStr(file.entry.base)))
    ELSE file

\* the file after a call: a written entry read back as json.load returns it
RawWritten(file) ==
    IF file.state = "valid"
    THEN RawFile("ok", "dict",
                 RawEntry("dict", TRUE, JNum(file.entry.ts), "dict", file.entry.rates,
                          JStr(file.entry.base)))
    ELSE file

\* a call made and what it did to the file
RawCalled(fn, outcomes, w, out) ==
    /\ call' = [fn |-> fn, args |-> [file |-> disk, outcomes |-> outcomes, w |-> w],
                done |-> TRUE, out |-> out]
    /\ disk' = RawWritten(out.r.file)
    /\ cache' = RawLoad(RawWritten(out.r.file))

\* CurrencyConverter(...) on the file, then fetch_rates
RawFetchRatesCall ==
    /\ call.fn = "none"
    /\ \E outcomes \in ConvertRuns, w \in {"written", "refused"} :
            RawCalled("fetch_rates", outcomes, w,
                      RawFetchRates(RawLoad(disk), disk, now, ttl, outcomes, w))
    /\ UNCHANGED <<now, ttl, last>>
    /\ UNCHANGED txVars

\* CurrencyConverter(...) on the file, then get_base
RawGetBaseCall ==
    /\ call.fn = "none"
    /\ \E outcomes \in ConvertRuns, w \in {"written", "refused"} :
            RawCalled("get_base", outcomes, w,
                      RawGetBase(RawLoad(disk), disk, now, ttl, outcomes, w))
    /\ UNCHANGED <<now, ttl, last>>
    /\ UNCHANGED txVars

\* the converter is dropped; the next one is constructed on the same file
RawDrop ==
    /\ call.fn # "none"
    /\ call' = NoCall
    /\ UNCHANGED <<rateVars, txVars>>

NextCacheFile == RawFetchRatesCall \/ RawGetBaseCall \/ RawDrop

SpecCacheFile == InitCacheFile /\ [][NextCacheFile]_vars

-----------------------------------------------------------------------------
(* eur_factor over drawn tables *)

\* what a table may hold for one currency: nothing, a rate, zero, a string
\* or null
Holdings == {JAbsent, JNum(ONE), JNum(110), JNum(0), JStr("n/a"), JNull}

\* the table holding eur for EUR and usd for USD
Shared(eur, usd) ==
    [k \in {c \in {"EUR", "USD"} :
                (c = "EUR" /\ eur # JAbsent) \/ (c = "USD" /\ usd # JAbsent)} |->
        IF k = "EUR" THEN eur ELSE usd]

SharedTables == {Shared(eur, usd) : eur \in Holdings, usd \in Holdings}

DisplayCodes == {"usd", "USD", "EUR", "gbp"}

InitFactor ==
    /\ RatesAtRest
    /\ store = <<>>
    /\ optimistic_tx = <<>>
    /\ view = <<>>
    /\ lastTx = Did("none", TRUE, <<>>, <<>>)
    /\ call \in {[fn |-> "eur_factor", args |-> [shared |-> t, to |-> c],
                  done |-> FALSE, out |-> <<>>] :
                    t \in SharedTables, c \in DisplayCodes}

\* eur_factor applied to the drawn table and code
EurFactorApply ==
    /\ call.fn = "eur_factor"
    /\ ~call.done
    /\ call' = [call EXCEPT !.done = TRUE,
                            !.out = EurFactor(call.args.shared, call.args.to)]
    /\ UNCHANGED <<rateVars, txVars>>

NextFactor == EurFactorApply

SpecFactor == InitFactor /\ [][NextFactor]_vars

-----------------------------------------------------------------------------
(* The danger zone of the sidebar: delete all, factory reset *)

\* what is typed into a confirmation box
ConfirmTexts == {"CLEAR", " clear ", "clea", "", "RESET", "reset "}

\* the button pressed and the text typed, with how the handler ended:
\* "done", "failed" (st.error) or "unconfirmed" (st.warning)
Pressed(button, typed, ended) ==
    [fn |-> button, args |-> [typed |-> typed], done |-> TRUE, out |-> ended]

\* how clear_transactions ends: the DELETE is committed, or an exception
\* rolls it back
ClearOutcomes == {"committed", "raises"}

\* how reset_database(drop_file=True) and vacuum() end: os.remove raises and
\* the file stays; the file is replaced and VACUUM raises; both succeed
ResetOutcomes == {"remove raises", "vacuum raises", "done"}

InitDanger ==
    /\ RatesAtRest
    /\ optimistic_tx \in Buffers
    /\ store \in Tables
    /\ view = <<>>
    /\ lastTx = Did("none", TRUE, <<>>, <<>>)
    /\ call = NoCall

\* "Delete all transactions" as it would be if it left the buffer alone
DeleteAllKeepBuffer ==
    /\ \E typed \in ConfirmTexts, o \in ClearOutcomes :
        IF Upper(Strip(typed)) = "CLEAR" THEN
            IF o = "committed"
            THEN /\ store' = <<>>
                 /\ UNCHANGED optimistic_tx
                 /\ lastTx' = Did("clear", TRUE, optimistic_tx, store)
                 /\ call' = Pressed("Delete all transactions", typed, "done")
            ELSE /\ UNCHANGED <<store, optimistic_tx>>
                 /\ lastTx' = Did("clear", FALSE, optimistic_tx, store)
                 /\ call' = Pressed("Delete all transactions", typed, "failed")
        ELSE /\ UNCHANGED <<store, optimistic_tx>>
             /\ lastTx' = Did("clear", FALSE, optimistic_tx, store)
             /\ call' = Pressed("Delete all transactions", typed, "unconfirmed")
    /\ UNCHANGED view
    /\ UNCHANGED rateVars

\* the "Delete all transactions" button: clear_transactions, the buffer
\* emptied, st.rerun()
DeleteAll ==
    /\ \E typed \in ConfirmTexts, o \in ClearOutcomes :
        IF Upper(Strip(typed)) = "CLEAR" THEN
            IF o = "committed"
            THEN /\ store' = <<>>
                 /\ optimistic_tx' = <<>>
                 /\ lastTx' = Did("clear", TRUE, optimistic_tx, store)
                 /\ call' = Pressed("Delete all transactions", typed, "done")
            ELSE /\ UNCHANGED <<store, optimistic_tx>>
                 /\ lastTx' = Did("clear", FALSE, optimistic_tx, store)
                 /\ call' = Pressed("Delete all transactions", typed, "failed")
        ELSE /\ UNCHANGED <<store, optimistic_tx>>
             /\ lastTx' = Did("clear", FALSE, optimistic_tx, store)
             /\ call' = Pressed("Delete all transactions", typed, "unconfirmed")
    /\ UNCHANGED view
    /\ UNCHANGED rateVars

\* the "Factory reset database" button: reset_database(drop_file=True), the
\* buffer emptied, vacuum(), st.rerun()
FactoryReset ==
    /\ \E typed \in ConfirmTexts, o \in ResetOutcomes :
        IF Upper(Strip(typed)) = "RESET" THEN
            IF o = "remove raises"
            THEN /\ UNCHANGED <<store, optimistic_tx>>
                 /\ lastTx' = Did("reset", FALSE, optimistic_tx, store)
                 /\ call' = Pressed("Factory reset database", typed, "failed")
            ELSE /\ store' = <<>>
                 /\ optimistic_tx' = <<>>
                 /\ lastTx' = Did("reset", o = "done", optimistic_tx, store)
                 /\ call' = Pressed("Factory reset database", typed,
                                    IF o = "done" THEN "done" ELSE "failed")
        ELSE /\ UNCHANGED <<store, optimistic_tx>>
             /\ lastTx' = Did("reset", FALSE, optimistic_tx, store)
             /\ call' = Pressed("Factory reset database", typed, "unconfirmed")
    /\ UNCHANGED view
    /\ UNCHANGED rateVars

NextDanger == DeleteAll \/ FactoryReset \/ Read

SpecDanger == InitDanger /\ [][NextDanger]_vars

-----------------------------------------------------------------------------
(* The dialogs: one run of app.py, from the buttons to the dialogs *)

\* the run in progress: pc the line reached, event the widget that caused
\* the run, has_modal whether st.dialog exists; show_add_tx, show_settings,
\* default_currency and flash are entries of st.session_state; add_open and
\* settings_open tell how each dialog was last rendered ("none", "dialog" or
\* "expander")
Run(pc, event, has_modal, add, settings, currency, flash, add_open, settings_open) ==
    [fn |-> "app.py", pc |-> pc, event |-> event, has_modal |-> has_modal,
     show_add_tx |-> add, show_settings |-> settings,
     default_currency |-> currency, flash |-> flash,
     add_open |-> add_open, settings_open |-> settings_open]

\* the widgets a user can act on, given what the last run rendered
Events(r) ==
    {"none", "add button", "settings button"}
        \cup (IF r.add_open # "none" THEN {"save tx"} ELSE {})
        \cup (IF r.settings_open # "none" THEN {"save settings"} ELSE {})

\* the display currencies offered
CommonCurrencies == {"EUR", "USD", "GBP"}

InitDialogs ==
    /\ RatesAtRest
    /\ store = <<>>
    /\ optimistic_tx = <<>>
    /\ view = <<>>
    /\ lastTx = Did("none", TRUE, <<>>, <<>>)
    /\ \E m \in BOOLEAN :
        call = Run("idle", "none", m, FALSE, FALSE, "EUR", "", "none", "none")

DialogVars == <<rateVars, view, lastTx>>

\* a run starts: init_session_state keeps the flags there are and shows and
\* deletes the flash message; after st.rerun() no widget has been acted on
RunStart ==
    /\ call.fn = "app.py"
    /\ call.pc \in {"idle", "rerun"}
    /\ \E e \in Events(call) :
        /\ call.pc = "rerun" => e = "none"
        /\ call' = [call EXCEPT !.pc = "buttons", !.event = e, !.flash = ""]
    /\ UNCHANGED <<store, optimistic_tx>>
    /\ UNCHANGED DialogVars

\* the buttons as they would be if each set its own flag only
ButtonsNoClear ==
    /\ call.fn = "app.py"
    /\ call.pc = "buttons"
    /\ call' = [call EXCEPT
                    !.pc = "safety",
                    !.show_add_tx = IF call.event = "add button" THEN TRUE ELSE @,
                    !.show_settings = IF call.event = "settings button" THEN TRUE ELSE @]
    /\ UNCHANGED <<store, optimistic_tx>>
    /\ UNCHANGED DialogVars

\* the two buttons of the top bar
Buttons ==
    /\ call.fn = "app.py"
    /\ call.pc = "buttons"
    /\ call' = [call EXCEPT
                    !.pc = "safety",
                    !.show_add_tx =
                        IF call.event = "add button" THEN TRUE
                        ELSE IF call.event = "settings button" THEN FALSE ELSE @,
                    !.show_settings =
                        IF call.event = "settings button" THEN TRUE
                        ELSE IF call.event = "add button" THEN FALSE ELSE @]
    /\ UNCHANGED <<store, optimistic_tx>>
    /\ UNCHANGED DialogVars

\* "Safety: enforce single-dialog invariant before rendering"
Safety ==
    /\ call.fn = "app.py"
    /\ call.pc = "safety"
    /\ call' = [call EXCEPT
                    !.pc = "add",
                    !.show_add_tx = IF call.show_add_tx /\ call.show_settings THEN FALSE ELSE @]
    /\ UNCHANGED <<store, optimistic_tx>>
    /\ UNCHANGED DialogVars

\* how a dialog opens: as a dialog when st.dialog exists and the other flag is
\* not set, else as an expander; not at all when its flag is not set
Opens(has_modal, own, other) ==
    IF has_modal /\ own /\ ~other THEN "dialog"
    ELSE IF own THEN "expander"
    ELSE "none"

\* show_add_tx(...): the dialog, and "Save transaction" when it was pressed
ShowAddTx ==
    /\ call.fn = "app.py"
    /\ call.pc = "add"
    /\ IF Opens(call.has_modal, call.show_add_tx, call.show_settings) # "none"
          /\ call.event = "save tx"
       THEN \E f \in Forms, fx \in FxOutcomes, committed \in BOOLEAN :
            IF committed /\ Len(store) < MaxRows
            THEN /\ store' = Append(store, FormRow(Len(store) + 1, f, fx))
                 /\ optimistic_tx' = Append(optimistic_tx, FormOptimistic(f, fx))
                 /\ call' = [call EXCEPT
                        !.pc = "rerun",
                        !.add_open = Opens(call.has_modal, call.show_add_tx, call.show_settings),
                        !.flash = "Transaction saved",
                        !.show_add_tx = FALSE]
            ELSE /\ UNCHANGED <<store, optimistic_tx>>
                 /\ call' = [call EXCEPT
                        !.pc = "settings",
                        !.add_open = Opens(call.has_modal, call.show_add_tx, call.show_settings)]
       ELSE /\ UNCHANGED <<store, optimistic_tx>>
            /\ call' = [call EXCEPT
                        !.pc = "settings",
                        !.add_open = Opens(call.has_modal, call.show_add_tx, call.show_settings)]
    /\ UNCHANGED DialogVars

\* show_settings(...): the dialog, and "Save Settings" when it was pressed;
\* save_settings_fn raising ends the run
ShowSettings ==
    /\ call.fn = "app.py"
    /\ call.pc = "settings"
    /\ IF Opens(call.has_modal, call.show_settings, call.show_add_tx) # "none"
          /\ call.event = "save settings"
       THEN \E chosen \in CommonCurrencies, saved \in BOOLEAN :
            IF saved
            THEN call' = [call EXCEPT
                        !.pc = "rerun",
                        !.settings_open = Opens(call.has_modal, call.show_settings, call.show_add_tx),
                        !.default_currency = Upper(chosen),
                        !.flash = "Display currency set",
                        !.show_settings = FALSE]
            ELSE call' = [call EXCEPT
                        !.pc = "idle",
                        !.settings_open = Opens(call.has_modal, call.show_settings, call.show_add_tx)]
       ELSE call' = [call EXCEPT
                        !.pc = "rest",
                        !.settings_open = Opens(call.has_modal, call.show_settings, call.show_add_tx)]
    /\ UNCHANGED <<store, optimistic_tx>>
    /\ UNCHANGED DialogVars

\* the sidebar, the table, the summary and the reports: none of them writes
\* the flags
RestOfRun ==
    /\ call.fn = "app.py"
    /\ call.pc = "rest"
    /\ call' = [call EXCEPT !.pc = "idle"]
    /\ UNCHANGED <<store, optimistic_tx>>
    /\ UNCHANGED DialogVars

NextDialogs == RunStart \/ Buttons \/ Safety \/ ShowAddTx \/ ShowSettings \/ RestOfRun

SpecDialogs == InitDialogs /\ [][NextDialogs]_vars

-----------------------------------------------------------------------------
(* fetch_rates with the time of the last table a provider gave *)

\* runs in which the first provider fails or answers and the others fail
SharedRuns ==
    {o \in OutcomeRuns :
        /\ o[1] \in {Failed("network"), Answered(BodyGeneric), Answered(BodyLower)}
        /\ \A i \in 2..Len(PROVIDERS) : o[i] \in {Failed("network"), Unasked}}

\* here call remembers the last table obtained from a provider and when
Provided(known, at, rates) ==
    [fn |-> "provided", known |-> known, at |-> at, rates |-> rates]

InitFresh ==
    /\ now = 0
    /\ ttl = 2
    /\ disk = NoFile
    /\ cache = LoadDiskCache(disk)
    /\ last = Idle
    /\ store = <<>>
    /\ optimistic_tx = <<>>
    /\ view = <<>>
    /\ lastTx = Did("none", TRUE, <<>>, <<>>)
    /\ call = Provided(FALSE, 0, EmptyTable)

\* one call of fetch_rates; a provider's table, when one is obtained, is
\* remembered with the time
TrackedFetchRatesCall ==
    /\ last.op = "none"
    /\ \E outcomes \in SharedRuns, w \in WriteOutcomes :
        /\ FetchRatesDone(FetchRates(cache, disk, now, ttl, outcomes, w),
                          FirstAnswering(outcomes), outcomes, w)
        /\ call' = IF /\ FetchRates(cache, disk, now, ttl, outcomes, w).requests # <<>>
                      /\ FirstAnswering(outcomes) # 0
                   THEN Provided(TRUE, now, TryProvider(outcomes[FirstAnswering(outcomes)]).rates)
                   ELSE call
    /\ UNCHANGED <<now, ttl>>
    /\ UNCHANGED txVars

NextFresh == TrackedFetchRatesCall \/ Return \/ Tick

SpecFresh == InitFresh /\ [][NextFresh]_vars

-----------------------------------------------------------------------------
(* services/db.py: the engine, sessions and test_insert_transaction *)

\* DB_PATH = os.getenv("DB_PATH", "data/app.db"), read when the module is
\* imported; ENGINE is created on it once
DB_PATH == "data/app.db"

\* the number of times the test is run on one checkout
MaxTestRuns == 3

\* Transaction(amount, currency, category, kind) with the column defaults;
\* the id is given at the flush
NewTransaction(amount, currency, category, kind) ==
    Row(0, DateTime(1, 0), amount, currency, NoAmount, category, kind, "")

\* the INSERT of a flush: the primary key is one more than the largest
Inserted(rows, tx) ==
    Append(rows, [tx EXCEPT !.id = 1 + Len(rows)])

\* Query.filter_by(category=c).one()
One(rows, c) ==
    LET got == SelectSeq(rows, LAMBDA r : r.category = c)
    IN  IF Len(got) = 1 THEN [kind |-> "row", row |-> got[1]]
        ELSE IF Len(got) = 0 THEN [kind |-> "NoResultFound", row |-> NewTransaction(0, "", "", "")]
        ELSE [kind |-> "MultipleResultsFound", row |-> NewTransaction(0, "", "", "")]

\* the test at a line: env is DB_PATH in the environment, engine the file
\* ENGINE is on, schema whether the table exists, pending the objects added
\* to the session, out what one() gave
TestAt(pc, run, env, schema, pending, out) ==
    [fn |-> "test_insert_transaction", pc |-> pc, run |-> run, env |-> env,
     engine |-> DB_PATH, schema |-> schema, pending |-> pending, out |-> out]

TestAmounts == {10, 20}
TestCategories == {"Test", "Food & Dining"}

InitDb ==
    /\ RatesAtRest
    /\ store = <<>>
    /\ optimistic_tx = <<>>
    /\ view = <<>>
    /\ lastTx = Did("none", TRUE, <<>>, <<>>)
    /\ call = TestAt("start", 1, DB_PATH, FALSE, <<>>, One(<<>>, ""))

\* monkeypatch.setenv("DB_PATH", tmp_path / "test.db"): the environment
\* changes, ENGINE stays on the file it was created on
SetEnvStep ==
    /\ call.fn = "test_insert_transaction" /\ call.pc = "start"
    /\ call' = [call EXCEPT !.pc = "env", !.env = "tmp_path/test.db"]
    /\ UNCHANGED store
    /\ UNCHANGED <<rateVars, optimistic_tx, view, lastTx>>

\* init_db(): create_all on ENGINE, which leaves an existing table alone
InitDbStep ==
    /\ call.fn = "test_insert_transaction" /\ call.pc = "env"
    /\ call' = [call EXCEPT !.pc = "init", !.schema = TRUE]
    /\ UNCHANGED store
    /\ UNCHANGED <<rateVars, optimistic_tx, view, lastTx>>

\* session = get_session(); session.add(Transaction(...))
SessionAddStep ==
    /\ call.fn = "test_insert_transaction" /\ call.pc = "init"
    /\ \E amount \in TestAmounts, category \in TestCategories :
            call' = [call EXCEPT !.pc = "added",
                        !.pending = <<NewTransaction(amount, "USD", category, "expense")>>]
    /\ UNCHANGED store
    /\ UNCHANGED <<rateVars, optimistic_tx, view, lastTx>>

\* session.commit(): the pending object is flushed to the table of ENGINE
CommitStep ==
    /\ call.fn = "test_insert_transaction" /\ call.pc = "added"
    /\ call.schema
    /\ store' = Inserted(store, call.pending[1])
    /\ call' = [call EXCEPT !.pc = "committed"]
    /\ UNCHANGED <<rateVars, optimistic_tx, view, lastTx>>

\* session.query(Transaction).filter_by(category=...).one()
QueryOneStep ==
    /\ call.fn = "test_insert_transaction" /\ call.pc = "committed"
    /\ call' = [call EXCEPT !.pc = "queried",
                    !.out = One(store, call.pending[1].category)]
    /\ UNCHANGED store
    /\ UNCHANGED <<rateVars, optimistic_tx, view, lastTx>>

\* the test is run again: a new process and a new tmp_path, the same DB_PATH
\* at import
TestAgain ==
    /\ call.fn = "test_insert_transaction" /\ call.pc = "queried"
    /\ call.run < MaxTestRuns
    /\ call' = TestAt("start", call.run + 1, DB_PATH, call.schema, <<>>, One(<<>>, ""))
    /\ UNCHANGED store
    /\ UNCHANGED <<rateVars, optimistic_tx, view, lastTx>>

NextDb ==
    SetEnvStep \/ InitDbStep \/ SessionAddStep \/ CommitStep \/ QueryOneStep \/ TestAgain

SpecDb == InitDb /\ [][NextDb]_vars

-----------------------------------------------------------------------------
(* _try_fetch_from_providers over drawn entries and provider outcomes *)

\* what the caller of _try_fetch_from_providers receives: the tuple
\* (base, rates), or an exception with the errors recorded (errors is a local
\* list, which the tuple does not carry)
Received(p) ==
    IF p.raised THEN [kind |-> "raised", base |-> "", rates |-> EmptyTable, errors |-> p.errors]
    ELSE [kind |-> "tuple", base |-> p.base, rates |-> p.rates, errors |-> <<>>]

\* entries the converter may hold when the chain runs
ChainEntries == {NoEntry, Entry(0, "USD", WithBase(("EUR" :> 90), "USD"))}

InitChain ==
    /\ RatesAtRest
    /\ store = <<>>
    /\ optimistic_tx = <<>>
    /\ view = <<>>
    /\ lastTx = Did("none", TRUE, <<>>, <<>>)
    /\ call \in {[fn |-> "_try_fetch_from_providers",
                  args |-> [entry |-> e, outcomes |-> o],
                  done |-> FALSE, out |-> <<>>] :
                    e \in ChainEntries, o \in OutcomeRuns}

\* _try_fetch_from_providers on the drawn entry and outcomes
TryFetchApply ==
    /\ call.fn = "_try_fetch_from_providers"
    /\ ~call.done
    /\ call' = [call EXCEPT !.done = TRUE,
                    !.out = Received(TryFetchFromProviders(call.args.entry,
                                                           call.args.outcomes))]
    /\ UNCHANGED <<rateVars, txVars>>

NextChain == TryFetchApply

SpecChain == InitChain /\ [][NextChain]_vars

-----------------------------------------------------------------------------
(* Two converters on one cache file, step by step *)

\* here cache and last hold one value per converter, and disk is the file as
\* the chunks it holds: absent, or a sequence of chunks, with the converter
\* whose write completed last (0: none yet)
Converters == {1, 2}

\* json.dump of the entry: one chunk for the head and one per rate, each the
\* k-th chunk of the text of that entry
Dump(entry) ==
    [k \in 1..(1 + Cardinality(DOMAIN entry.rates)) |-> [of |-> entry, at |-> k]]

Chunks(exists, chunks, writer) == [exists |-> exists, chunks |-> chunks, writer |-> writer]

\* _load_disk_cache on the chunks: anything but the whole text of one entry
\* makes json.load raise, which is no cache
LoadChunks(file) ==
    IF file.exists /\ file.chunks # <<>> /\ file.chunks = Dump(file.chunks[1].of)
    THEN file.chunks[1].of
    ELSE NoEntry

\* open(path, "w"): the file exists and is empty
Truncated(file) == Chunks(TRUE, <<>>, file.writer)

\* the buffered text written at offset 0 when the file object is closed: what
\* the file holds beyond the text's length stays
Flushed(file, text, i) ==
    Chunks(TRUE,
           [k \in 1..(IF Len(text) > Len(file.chunks) THEN Len(text) ELSE Len(file.chunks)) |->
                IF k <= Len(text) THEN text[k] ELSE file.chunks[k]],
           i)

\* a converter's position and what its fetch_rates call returned
At(pc, raised, ret) == [pc |-> pc, raised |-> raised, ret |-> ret]

\* files the converters may find: none, one written before ttl ago, one
\* written just now
FoundFiles ==
    {Chunks(FALSE, <<>>, 0),
     Chunks(TRUE, Dump(Entry(0, SEED_BASE, SEED_RATES)), 0),
     Chunks(TRUE, Dump(Entry(1, "USD", WithBase(("EUR" :> 90), "USD"))), 0)}

InitShared ==
    /\ now = 1
    /\ ttl = 1
    /\ disk \in FoundFiles
    /\ cache = [i \in Converters |-> NoEntry]
    /\ last = [i \in Converters |-> At("new", FALSE, EmptyTable)]
    /\ InitTx

\* CurrencyConverter.__init__: the file is read
LoadStep(i) ==
    /\ last[i].pc = "new"
    /\ cache' = [cache EXCEPT ![i] = LoadChunks(disk)]
    /\ last' = [last EXCEPT ![i].pc = "ready"]
    /\ UNCHANGED <<now, ttl, disk>>
    /\ UNCHANGED <<txVars, call>>

\* what fetch_rates does up to its call of _save_disk_cache
ResolveDone(i, r) ==
    /\ cache' = [cache EXCEPT ![i] = r.cache]
    /\ last' = [last EXCEPT ![i] = At(IF r.raised \/ r.saves = 0 THEN "returned" ELSE "save",
                                      r.raised, r.ret)]

\* fetch_rates: the freshness test, the providers, the entry stored in memory
ResolveStep(i) ==
    /\ last[i].pc = "ready"
    /\ \E outcomes \in SharedRuns :
            ResolveDone(i, FetchRates(cache[i], NoFile, now, ttl, outcomes, "refused"))
    /\ UNCHANGED <<now, ttl, disk>>
    /\ UNCHANGED <<txVars, call>>

\* _save_disk_cache: makedirs and open(path, "w")
OpenStep(i) ==
    /\ last[i].pc = "save"
    /\ disk' = Truncated(disk)
    /\ last' = [last EXCEPT ![i].pc = "opened"]
    /\ UNCHANGED <<now, ttl, cache>>
    /\ UNCHANGED <<txVars, call>>

\* _save_disk_cache: json.dump and the close of the file; fetch_rates returns
FlushStep(i) ==
    /\ last[i].pc = "opened"
    /\ disk' = Flushed(disk, Dump(cache[i]), i)
    /\ last' = [last EXCEPT ![i].pc = "returned"]
    /\ UNCHANGED <<now, ttl, cache>>
    /\ UNCHANGED <<txVars, call>>

NextShared ==
    \E i \in Converters : LoadStep(i) \/ ResolveStep(i) \/ OpenStep(i) \/ FlushStep(i)

SpecShared == InitShared /\ [][NextShared]_vars

-----------------------------------------------------------------------------
(* core/fx.py over floating-point numbers *)

\* the width of a float's significand, in bits
Precision == 6

RECURSIVE Pow2(_)
Pow2(k) == IF k <= 0 THEN 1 ELSE 2 * Pow2(k - 1)

\* a float is m * 2^e with 2^(Precision-1) <= m < 2^Precision, or zero
FloatZero == [m |-> 0, e |-> 0]

\* n/d rounded to the nearest integer, ties to even
RoundHalfEven(n, d) ==
    IF 2 * (n % d) > d \/ (2 * (n % d) = d /\ (n \div d) % 2 = 1)
    THEN (n \div d) + 1
    ELSE n \div d

\* a significand that rounded up to 2^Precision moves to the next exponent
Normal(m, e) ==
    IF m = Pow2(Precision) THEN [m |-> Pow2(Precision - 1), e |-> e + 1]
    ELSE [m |-> m, e |-> e]

\* the float nearest to (n/d) * 2^e, for n, d > 0
RECURSIVE Nearest(_, _, _)
Nearest(n, d, e) ==
    IF n >= d * Pow2(Precision) THEN Nearest(n, 2 * d, e + 1)
    ELSE IF n < d * Pow2(Precision - 1) THEN Nearest(2 * n, d, e - 1)
    ELSE Normal(RoundHalfEven(n, d), e)

\* the float a literal n/d denotes
Float(n, d) == IF n = 0 THEN FloatZero ELSE Nearest(n, d, 0)

\* a * b and a / b on floats: the exact result, rounded
FloatMul(a, b) ==
    IF a.m = 0 \/ b.m = 0 THEN FloatZero ELSE Nearest(a.m * b.m, 1, a.e + b.e)
FloatDiv(a, b) ==
    IF a.m = 0 THEN FloatZero ELSE Nearest(a.m, b.m, a.e - b.e)

\* None, where a float is expected
NoFloat == [m |-> 0, e |-> 1]

\* shared.get(key, default), the table holding hundredths
FloatRate(shared, key, default) ==
    IF key \in DOMAIN shared THEN Float(shared[key], ONE) ELSE default

\* eur_factor
FloatEurFactor(shared, to_currency) ==
    IF /\ Upper(to_currency) \in DOMAIN shared
       /\ FloatRate(shared, "EUR", Float(1, 1)) # FloatZero
    THEN FloatDiv(FloatRate(shared, Upper(to_currency), NoFloat),
                  FloatRate(shared, "EUR", Float(1, 1)))
    ELSE Float(1, 1)

\* to_eur dividing the wrong way round
FloatToEurInverted(shared, amount, currency) ==
    LET cur == Upper(StrOr(currency, "EUR"))
    IN  IF cur \in DOMAIN shared /\ FloatRate(shared, cur, NoFloat) # FloatZero
        THEN FloatMul(amount, FloatDiv(FloatRate(shared, cur, NoFloat),
                                       FloatRate(shared, "EUR", Float(1, 1))))
        ELSE IF cur = "EUR" THEN amount
        ELSE NoFloat

\* to_eur
FloatToEur(shared, amount, currency) ==
    LET cur == Upper(StrOr(currency, "EUR"))
    IN  IF cur \in DOMAIN shared /\ FloatRate(shared, cur, NoFloat) # FloatZero
        THEN FloatMul(amount, FloatDiv(FloatRate(shared, "EUR", Float(1, 1)),
                                       FloatRate(shared, cur, NoFloat)))
        ELSE IF cur = "EUR" THEN amount
        ELSE NoFloat

\* tables with positive rates: the seed, a table on another base, one
\* without EUR
UsdBased == ("USD" :> ONE) @@ ("EUR" :> 92) @@ ("GBP" :> 79) @@ ("INR" :> 8350)
WithoutEur == ("USD" :> 108) @@ ("GBP" :> 85)
PositiveTables == {SEED_RATES, UsdBased, WithoutEur}

\* tables to_eur is asked about
ToEurTables == RateTables \cup {EmptyTable, UsdBased, WithoutEur}

ToEurCodes == {NoneStr, "", "EUR", "eur", "USD", "usd", "GBP", "XXX"}

\* amounts in hundredths
Hundredths == {10, 100, 500, 1000, 1234, 10000}

InitFx ==
    /\ RatesAtRest
    /\ store = <<>>
    /\ optimistic_tx = <<>>
    /\ view = <<>>
    /\ lastTx = Did("none", TRUE, <<>>, <<>>)
    /\ call \in
         {[fn |-> "to_eur", args |-> [shared |-> t, amount |-> a, currency |-> c],
           done |-> FALSE, out |-> <<>>] :
              t \in ToEurTables, a \in {0, 5}, c \in ToEurCodes}
         \cup
         UNION {{[fn |-> "eur_factor",
                  args |-> [shared |-> t, amount |-> a, currency |-> c],
                  done |-> FALSE, out |-> <<>>] :
                     a \in Hundredths, c \in {"EUR"} \cup DOMAIN t} :
                t \in PositiveTables}

\* to_eur applied to the drawn table, amount and currency
ToEurApply ==
    /\ call.fn = "to_eur"
    /\ ~call.done
    /\ call' = [call EXCEPT !.done = TRUE,
                    !.out = ToEur(call.args.shared, call.args.amount, call.args.currency)]
    /\ UNCHANGED <<rateVars, txVars>>

\* what converting there and back gives
ThereAndBack(shared, amount, currency, factor) ==
    [factor |-> factor,
     there |-> FloatMul(amount, factor),
     back |-> FloatToEur(shared, FloatMul(amount, factor), currency)]

\* an EUR amount shown in the drawn currency (amount * eur_factor) and taken
\* back by to_eur
EurFactorToEurApply ==
    /\ call.fn = "eur_factor"
    /\ ~call.done
    /\ call' = [call EXCEPT !.done = TRUE,
                    !.out = ThereAndBack(call.args.shared,
                                Float(call.args.amount, ONE), call.args.currency,
                                FloatEurFactor(call.args.shared, call.args.currency))]
    /\ UNCHANGED <<rateVars, txVars>>

NextFx == ToEurApply \/ EurFactorToEurApply

SpecFx == InitFx /\ [][NextFx]_vars

-----------------------------------------------------------------------------
(* Properties of rate resolution *)

Fetched == last.op = "fetch_rates"

\* the entry the call found was fresh / moderately stale (time does not
\* pass during a call, so now is the time of the call)
WasFresh == last.pre.present /\ (now - last.pre.ts) < ttl
WasModeratelyStale ==
    last.pre.present /\ ~WasFresh /\ (now - last.pre.ts) < ttl * StaleFactor
WasVeryStale == last.pre.present /\ (now - last.pre.ts) >= ttl * StaleFactor

\* every provider requested failed
AllFailed == last.answering = 0

\* C1: fetch_rates never raises and never returns an empty mapping, whatever
\* the providers do and whatever the cache holds; with every provider failing
\* and no cache it returns the seed table, which holds EUR at rate 1.0.
C1_FetchRatesTotal ==
    Fetched =>
        /\ ~last.raised
        /\ DOMAIN last.ret # {}
        /\ (~WasFresh /\ AllFailed /\ ~last.pre.present) =>
                /\ last.ret = SEED_RATES
                /\ SEED_BASE \in DOMAIN last.ret
                /\ last.ret[SEED_BASE] = ONE

C1_Witness ==
    /\ Fetched /\ AllFailed /\ ~last.pre.present
    /\ Len(last.requests) = Len(PROVIDERS)
    /\ last.ret = SEED_RATES

\* C3: with a cache entry that is not fresh and every provider failing,
\* fetch_rates returns the cached rates whatever the entry's age, and the seed
\* table only when there is no cached entry.
C3_ExhaustedFallsBackToCache ==
    (Fetched /\ ~WasFresh /\ AllFailed) =>
        /\ last.pre.present => last.ret = last.pre.rates
        /\ ~last.pre.present => last.ret = SEED_RATES

C3_Witness ==
    /\ Fetched /\ AllFailed /\ WasVeryStale
    /\ last.pre.rates # SEED_RATES
    /\ last.ret = last.pre.rates

\* C4: with a cached entry of age strictly below ttl, fetch_rates returns the
\* entry's rates, requests no provider and writes nothing.
C4_FreshIsServedFromCache ==
    (Fetched /\ WasFresh) =>
        /\ last.ret = last.pre.rates
        /\ last.requests = <<>>
        /\ last.saves = 0
        /\ cache = last.pre
        /\ disk = last.preFile

C4_Witness ==
    /\ Fetched /\ WasFresh
    /\ last.answering # 0
    /\ last.answer.rates # last.pre.rates
    /\ last.ret = last.pre.rates

\* C5 as claimed: with no fresh entry and a provider answering with a valid
\* table, fetch_rates returns that table and the cache entry is (now, base,
\* rates) of it in memory and in the cache file.
C5_AsClaimed ==
    (Fetched /\ ~WasFresh /\ ~AllFailed) =>
        /\ last.ret = last.answer.rates
        /\ cache = Entry(now, last.answer.base, last.answer.rates)
        /\ disk = File(cache)

\* C5 as amended: the returned table and the entry in memory are as claimed;
\* the file is written once and holds the entry when that write succeeds.
C5_ResolvedIsStored ==
    (Fetched /\ ~WasFresh /\ ~AllFailed) =>
        /\ last.ret = last.answer.rates
        /\ cache = Entry(now, last.answer.base, last.answer.rates)
        /\ last.saves = 1
        /\ last.write = "written" => disk = File(cache)

C5_Witness ==
    /\ Fetched /\ WasModeratelyStale
    /\ last.answering = 2
    /\ last.answer.rates # last.pre.rates
    /\ last.preFile = File(last.pre)
    /\ last.write = "written"
    /\ disk = File(Entry(now, last.answer.base, last.answer.rates))

\* the providers requested when the first able to answer is the k-th
Asked(k) == SubSeq(PROVIDERS, 1, IF k = 0 THEN Len(PROVIDERS) ELSE k)
Erred(k) == SubSeq(PROVIDERS, 1, IF k = 0 THEN Len(PROVIDERS) ELSE k - 1)

\* C6: one resolution requests the providers in list order, each at most
\* once; a failing provider is followed by the next one, and the first
\* provider that yields a table ends the resolution and its table is returned.
C6_ChainInOrderFirstSuccess ==
    (Fetched /\ ~WasFresh) =>
        /\ last.requests = Asked(last.answering)
        /\ last.errors = Erred(last.answering)
        /\ ~AllFailed => last.ret = last.answer.rates

C6_Witness ==
    /\ Fetched /\ ~WasFresh
    /\ last.answering = Len(PROVIDERS)
    /\ Len(last.errors) = 2
    /\ last.requests = PROVIDERS
    /\ last.ret = last.answer.rates

\* C7: the cache entry changes only when a provider returned a valid table: a
\* fetch_rates call in which every provider fails leaves the entry unchanged
\* in memory and on disk, and the seed table is never stored as the entry.
C7_AsClaimed ==
    (Fetched /\ AllFailed) =>
        /\ cache = last.pre
        /\ disk = last.preFile

-----------------------------------------------------------------------------
(* Properties of the optimistic buffer and the merged view *)

\* positions of frame whose row satisfies P
Positions(frame, P(_)) == {k \in 1..Len(frame) : P(frame[k])}

\* the signature of a stored row as the merged frame compares it
StoredMergeSig(r) == MergeSig(DbFrameRow(r))

\* the record the add handler put in the buffer for stored row r
OptimisticCopy(r) ==
    BuildOptimistic(r.date, r.amount, r.currency, r.amount_eur,
                    r.category, r.kind, r.description)

\* view row v is a copy of stored row r: the stored row or its optimistic record
Shows(v, r) == v.id = r.id \/ (v.id = 0 /\ v = OptimisticCopy(r))

DistinctSignatures ==
    \A a, b \in 1..Len(store) : a # b =>
        /\ ReconcileSig(store[a]) # ReconcileSig(store[b])
        /\ StoredMergeSig(store[a]) # StoredMergeSig(store[b])

\* C2: after any sequence of add-transaction writes and page reads, the view
\* of a read shows each written transaction exactly once (never its optimistic
\* copy and its stored row together, never no copy), for transactions of
\* pairwise distinct signatures that are all within the recent window
C2_AsClaimed ==
    (lastTx.op = "read" /\ Len(store) <= RecentLimit /\ DistinctSignatures) =>
        \A a \in 1..Len(store) :
            Cardinality(Positions(view, LAMBDA v : Shows(v, store[a]))) = 1

\* the signature of the claim: date-only, amount, upper-cased currency,
\* description, category, lower-cased kind
ClaimedSig(x) ==
    [date |-> x.date.day, amount |-> x.amount,
     currency |-> Upper(StrOr(x.currency, "")),
     description |-> StrOr(x.description, ""),
     category |-> StrOr(x.category, ""),
     kind |-> Lower(StrOr(x.kind, ""))]

\* positions of the buffer before the call whose entry matches no returned row
Unmatched ==
    {i \in 1..Len(lastTx.pre) :
        \A j \in 1..Len(lastTx.rows) :
            ClaimedSig(lastTx.pre[i]) # ClaimedSig(lastTx.rows[j])}

\* the k-th smallest member of a set of positions
Kth(S, k) == CHOOSE i \in S : Cardinality({j \in S : j <= i}) = k

C9_AsClaimed ==
    lastTx.op = "merge" =>
        \A a, b \in 1..Len(view) : a # b => MergeSig(view[a]) # MergeSig(view[b])

\* the inputs of the merge, optimistic rows then stored rows
MergeInput == lastTx.pre \o lastTx.rows

\* the first row of the merge input with the signature sig
FirstWith(sig) ==
    MergeInput[CHOOSE i \in 1..Len(MergeInput) :
                    /\ MergeSig(MergeInput[i]) = sig
                    /\ \A j \in 1..(i - 1) : MergeSig(MergeInput[j]) # sig]

SharedSignatures ==
    {MergeSig(lastTx.pre[i]) : i \in 1..Len(lastTx.pre)}
        \cap {MergeSig(lastTx.rows[j]) : j \in 1..Len(lastTx.rows)}

\* C10: merge_frames keeps, for every signature of either input, the first
\* row with it in the order optimistic rows then stored rows, and drops no
\* signature; a signature shared by an optimistic row and a stored row has
\* exactly one row in the result, the optimistic one (id None)
C10_MergeKeepsFirst ==
    lastTx.op = "merge" =>
        /\ \A i \in 1..Len(MergeInput) :
                \E k \in 1..Len(view) : view[k] = FirstWith(MergeSig(MergeInput[i]))
        /\ \A k \in 1..Len(view) :
                \E i \in 1..Len(MergeInput) : view[k] = MergeInput[i]
        /\ \A sig \in SharedSignatures :
                /\ Cardinality(Positions(view, LAMBDA v : MergeSig(v) = sig)) = 1
                /\ \A k \in 1..Len(view) : MergeSig(view[k]) = sig =>
                        /\ view[k].id = 0
                        /\ view[k] = FirstWith(sig)

\* one optimistic row and one stored row of the same signature merge into the
\* optimistic row alone
C10_Witness ==
    /\ lastTx.op = "merge"
    /\ Len(lastTx.pre) = 1
    /\ Len(lastTx.rows) = 1
    /\ MergeSig(lastTx.pre[1]) = MergeSig(lastTx.rows[1])
    /\ lastTx.rows[1].id # 0
    /\ view = lastTx.pre

-----------------------------------------------------------------------------
(* Properties of the write path *)

\* record o is what build_optimistic makes of the values of stored row r
\* (amount_eur apart, which the backfill may set on the row later)
WrittenAs(o, r) ==
    [o EXCEPT !.amount_eur = NoAmount] =
        [OptimisticCopy(r) EXCEPT !.amount_eur = NoAmount]

EveryEntryCommitted ==
    \A k \in 1..Len(optimistic_tx) :
        \E a \in 1..Len(store) : WrittenAs(optimistic_tx[k], store[a])

\* a step that lengthens the buffer is a committed add of the same values;
\* a failed add changes neither the table nor the buffer
AppendFollowsCommit ==
    /\ Len(optimistic_tx') > Len(optimistic_tx) =>
            /\ lastTx'.op = "add" /\ lastTx'.ok
            /\ optimistic_tx' = Append(optimistic_tx, optimistic_tx'[Len(optimistic_tx')])
            /\ Len(store') = Len(store) + 1
            /\ store' = Append(store, store'[Len(store')])
            /\ WrittenAs(optimistic_tx'[Len(optimistic_tx')], store'[Len(store')])
    /\ (lastTx'.op = "add" /\ ~lastTx'.ok /\ lastTx' # lastTx) =>
            /\ optimistic_tx' = optimistic_tx
            /\ store' = store

\* C11: in the add-transaction write path a record is appended to the buffer
\* only after the commit of the same values has succeeded; a failed add or
\* commit leaves the buffer unchanged; in every reachable state each buffer
\* entry corresponds to a committed store write
C11_AppendOnlyAfterCommit == [](EveryEntryCommitted) /\ [][AppendFollowsCommit]_vars

\* a commit failed while the buffer held a record of an earlier committed add
C11_Witness ==
    /\ lastTx.op = "add"
    /\ ~lastTx.ok
    /\ optimistic_tx = lastTx.pre
    /\ Len(optimistic_tx) = 1
    /\ Len(store) >= 1

\* C12: every record appended by the write path is removed from the buffer by
\* the first reconcile that runs afterwards, for any date and any number of
\* other rows in the store
C12_AsClaimed ==
    [][(lastTx.op = "add" /\ lastTx.ok /\ lastTx'.op = "read") =>
            \A k \in 1..Len(optimistic_tx') :
                optimistic_tx'[k] # optimistic_tx[Len(optimistic_tx)]]_vars

-----------------------------------------------------------------------------
(* Properties of convert *)

Converted == call.fn = "convert" /\ call.done

\* the codes of the call after the defaults and upper-casing
FromCode == Upper(StrOr(call.args.from, "USD"))
ToCode == Upper(StrOr(call.args.to, "USD"))

\* the call passed a table with entries
OverrideUsed == call.args.rates.given /\ DOMAIN call.args.rates.table # {}

\* the table the lookups were made in and the base it was resolved with
TableUsed ==
    IF OverrideUsed THEN call.args.rates.table ELSE Lift(call.out.fetch.r.ret)
BaseUsed ==
    IF OverrideUsed THEN call.args.rates.base ELSE call.out.fetch.r.cache.base

\* C13: for from # to (after upper-casing) and a non-None amount, convert
\* returns amount * rates[to] / rates[from] when both currencies are keys of
\* the table used (the override if given, else fetch_rates()); when either is
\* absent it raises MissingRate naming the absent currency, the source before
\* the target, and the base of the table used for the lookup
C13_AsClaimed ==
    (Converted /\ call.args.amount # JNull /\ FromCode # ToCode) =>
        IF FromCode \in DOMAIN TableUsed /\ ToCode \in DOMAIN TableUsed
        THEN /\ call.out.raised = "none"
             /\ call.out.ret = Ratio(call.args.amount.n * TableUsed[ToCode].n,
                                     TableUsed[FromCode].n)
        ELSE /\ call.out.raised = "MissingRate"
             /\ call.out.named = (IF FromCode \notin DOMAIN TableUsed
                                  THEN FromCode ELSE ToCode)
             /\ call.out.base = BaseUsed

\* C14: the only error convert can raise to its caller is MissingRate, for
\* every amount, pair of codes and rate table, a table in which the source
\* currency's rate is 0 included
C14_AsClaimed ==
    Converted => call.out.raised \in {"none", "MissingRate"}

\* C15: a None amount returns 0 and from = to (after upper-casing) returns the
\* amount unchanged; in both cases fetch_rates is not called, no provider is
\* requested and the cache and its file are unchanged
C15_ShortcutsResolveNothing ==
    (Converted /\ (call.args.amount = JNull \/ FromCode = ToCode)) =>
        /\ call.out.raised = "none"
        /\ call.out.ret = (IF call.args.amount = JNull THEN Whole(0)
                           ELSE Whole(call.args.amount.n))
        /\ call.out.fetch.calls = 0
        /\ call.out.fetch.r.requests = <<>>
        /\ call.out.fetch.r.saves = 0
        /\ cache = call.args.entry
        /\ disk = call.args.file

\* equal codes after upper-casing on a converter without cache and without a
\* table passed, and a None amount between different codes
C15_Witness ==
    /\ Converted
    /\ call.args.entry = NoEntry
    /\ ~call.args.rates.given
    /\ \/ /\ call.args.amount = JNum(5)
          /\ call.args.from = "usd"
          /\ call.args.to = "USD"
          /\ call.out.ret = Whole(5)
       \/ /\ call.args.amount = JNull
          /\ call.args.from = "XXX"
          /\ call.args.to = "EUR"
          /\ call.out.ret = Whole(0)

-----------------------------------------------------------------------------
(* Properties of the response adapter *)

Parsed == call.fn = "_parse_rates" /\ call.done

Accepted == Parsed /\ call.out.ok

\* the entries of the body's "rates" whose value is a JSON number
NumericItems ==
    {i \in 1..Len(call.args.items) : call.args.items[i].v.t = "num"}

\* C16: for every body _parse_rates accepts, every key of the returned rates
\* is upper-cased, the map holds only the entries whose upstream value was
\* numeric, and it holds the returned base with rate exactly 1.0
C16_AsClaimed ==
    Accepted =>
        /\ \A k \in DOMAIN call.out.rates : Upper(k) = k
        /\ call.out.base \in DOMAIN call.out.rates
        /\ call.out.rates[call.out.base] = ONE
        /\ \A k \in DOMAIN call.out.rates \ {call.out.base} :
                \E i \in NumericItems : Upper(call.args.items[i].k) = k
        /\ \A i \in NumericItems : Upper(call.args.items[i].k) \in DOMAIN call.out.rates

\* the body has the alternate success-flag shape: result "success", a string
\* base_code, a rates mapping, no base and no from
AlternateShape ==
    /\ call.args.dict
    /\ call.args.ratesT = "dict"
    /\ call.args.result = JStr("success")
    /\ call.args.base_code.t = "str"
    /\ call.args.base = JAbsent
    /\ call.args.from = JAbsent

\* C17: for a body {result: "success", base_code: C, rates: {...}} the adapter
\* returns base = upper-cased C and rates with rates[C] = 1.0, for every C
C17_AsClaimed ==
    (Parsed /\ AlternateShape) =>
        /\ call.out.ok
        /\ call.out.base = Upper(call.args.base_code.s)
        /\ Upper(call.args.base_code.s) \in DOMAIN call.out.rates
        /\ call.out.rates[Upper(call.args.base_code.s)] = ONE

\* some field declares the base as a string
BaseDeclared ==
    \/ (call.args.base.t = "str" /\ call.args.base.s # "")
    \/ (call.args.from.t = "str" /\ call.args.from.s # "")
    \/ (call.args.base_code.t = "str" /\ call.args.base_code.s # "")

\* C18: the adapter fails for every response without a rates mapping and for
\* every response whose base cannot be determined; it never substitutes a
\* default base
C18_AsClaimed ==
    Parsed =>
        /\ (~call.args.dict \/ call.args.ratesT # "dict") => ~call.out.ok
        /\ ~BaseDeclared => ~call.out.ok

-----------------------------------------------------------------------------
(* Properties of a converter constructed on a cache file *)

\* the file of the call is absent, unreadable, not valid JSON, or valid JSON
\* of the wrong structure
NoUsableCache(file) ==
    \/ file.state # "ok"
    \/ file.top # "dict"
    \/ (file.single.t # "absent" /\ ~WellFormed(file.single))

\* what the call does on a converter without cache
NoCacheTier ==
    FetchRates(NoEntry, call.args.file, now, ttl, call.args.outcomes, call.args.w)

\* C19: a cache file that is absent, unreadable, not valid JSON or of the
\* wrong structure is treated as no cache: constructing a converter on it and
\* calling fetch_rates or get_base never raises and proceeds as in the
\* no-cache tier
C19_AsClaimed ==
    (call.fn \in {"fetch_rates", "get_base"} /\ call.done
        /\ NoUsableCache(call.args.file)) =>
        /\ call.out.error = "none"
        /\ call.fn = "fetch_rates" =>
                /\ call.out.r.ret = NoCacheTier.ret
                /\ call.out.r.requests = NoCacheTier.requests
        /\ call.fn = "get_base" => call.out.base = JStr(BaseAfter(NoCacheTier))

-----------------------------------------------------------------------------
(* Properties of the display factor *)

\* the table of the call holds a number for currency c
HoldsNumber(c) ==
    c \in DOMAIN call.args.shared /\ call.args.shared[c].t = "num"

\* C20: eur_factor equals rates[to] / rates[EUR] when both are numeric and the
\* EUR rate is not zero, and 1.0 in every other case: the target missing or
\* non-numeric, EUR missing or non-numeric, or the EUR rate 0
C20_AsClaimed ==
    (call.fn = "eur_factor" /\ call.done) =>
        call.out =
            IF /\ HoldsNumber(Upper(call.args.to))
               /\ HoldsNumber("EUR")
               /\ call.args.shared["EUR"].n # 0
            THEN Ratio(call.args.shared[Upper(call.args.to)].n, call.args.shared["EUR"].n)
            ELSE Whole(1)

-----------------------------------------------------------------------------
(* Properties of to_eur and of the round trip *)

\* |x - a| <= k * 2^-Precision * a, for floats x and a
Within(x, a, k) ==
    LET lo == IF x.e < a.e THEN x.e ELSE a.e
        X == x.m * Pow2(x.e - lo)
        A == a.m * Pow2(a.e - lo)
    IN  /\ (X - A) * Pow2(Precision) <= k * A
        /\ (A - X) * Pow2(Precision) <= k * A

RoundTripped == call.fn = "eur_factor" /\ call.done

\* C21 as stated: the factor of EUR to itself is 1, and an EUR amount
\* converted to X with eur_factor and back with to_eur is the original amount
C21_AsClaimed ==
    RoundTripped =>
        /\ FloatEurFactor(call.args.shared, "EUR") = Float(1, 1)
        /\ call.out.back = Float(call.args.amount, ONE)

\* C21: over every table with positive rates the factor of EUR to itself is
\* exactly 1, and an EUR amount converted to X with eur_factor and back with
\* to_eur is the original amount to within the rounding of the four
\* floating-point operations involved (relative error at most 5 * 2^-p for a
\* significand of p bits)
C21_RoundTripWithinRounding ==
    RoundTripped =>
        /\ FloatEurFactor(call.args.shared, "EUR") = Float(1, 1)
        /\ Within(call.out.back, Float(call.args.amount, ONE), 5)

\* a round trip through a currency whose factor is not 1
C21_Witness ==
    /\ RoundTripped
    /\ call.args.currency # "EUR"
    /\ call.out.factor # Float(1, 1)
    /\ call.out.back # NoFloat
    /\ Within(call.out.back, Float(call.args.amount, ONE), 5)

ToEurDone == call.fn = "to_eur" /\ call.done

\* the code to_eur looks up: (currency or "EUR").upper()
AskedCode == Upper(StrOr(call.args.currency, "EUR"))

\* C22: to_eur returns amount * rates[EUR] / rates[currency] when both rates
\* are in the table and rates[currency] is not zero, None when the currency
\* is absent from the table and is not EUR, and the amount unchanged when the
\* currency is EUR, whatever the table holds
C22_ToEurCases ==
    ToEurDone =>
        /\ ({AskedCode, "EUR"} \subseteq DOMAIN call.args.shared
                /\ call.args.shared[AskedCode] # 0) =>
              call.out = Ratio(call.args.amount * call.args.shared["EUR"],
                               call.args.shared[AskedCode])
        /\ (AskedCode \notin DOMAIN call.args.shared /\ AskedCode # "EUR") =>
              call.out = NoAmount
        /\ AskedCode = "EUR" => call.out = Whole(call.args.amount)

\* EUR asked of the empty table
C22_Witness ==
    /\ ToEurDone
    /\ call.args.shared = EmptyTable
    /\ AskedCode = "EUR"
    /\ call.args.amount = 5
    /\ call.out = Whole(5)

-----------------------------------------------------------------------------
(* Properties of the two signatures *)

\* o is a record as build_optimistic makes it
BuiltRecord(o) ==
    o = BuildOptimistic(o.date, o.amount, o.currency, o.amount_eur, o.category,
                        o.kind, o.description)

\* the stored row r makes reconcile_with_db drop the record o
ReconcileDrops(o, r) == ReconcileWithDb(<<o>>, <<r>>) = <<>>

\* merge_frames keeps one row of the record o and the stored row r
MergeJoins(o, r) == Len(MergeFrames(<<o>>, DbFrame(<<r>>))) = 1

\* C23: reconcile and merge use one and the same signature: for every
\* optimistic record o and stored row r, r makes reconcile drop o if and only
\* if merge treats o and r as duplicates (so records that differ only in the
\* time of day, or in the letter case of currency or kind, are one
\* transaction for both)
C23_AsClaimed ==
    lastTx.op = "reconcile" =>
        \A i \in 1..Len(lastTx.pre), j \in 1..Len(lastTx.rows) :
            BuiltRecord(lastTx.pre[i]) =>
                (ReconcileDrops(lastTx.pre[i], lastTx.rows[j])
                    <=> MergeJoins(lastTx.pre[i], lastTx.rows[j]))

-----------------------------------------------------------------------------
(* Properties of get_base *)

\* the entry's table holds rate 1.0 for the entry's base
HoldsBase(entry) ==
    entry.present =>
        /\ entry.base \in DOMAIN entry.rates
        /\ entry.rates[entry.base] = ONE

\* after fetch_rates the entry holds the table returned; get_base answers
\* the entry's base, resolving once when there was no entry
BaseOfLastTable ==
    /\ HoldsBase(cache)
    /\ Fetched => (cache.present /\ cache.rates = last.ret)
    /\ last.op = "get_base" =>
        /\ ~last.raised
        /\ cache.present
        /\ last.base = cache.base
        /\ last.pre.present => (last.calls = 0 /\ cache = last.pre)
        /\ ~last.pre.present => (last.calls = 1 /\ cache.rates = last.ret)

\* the entry changes only in a call of fetch_rates or get_base, or when a new
\* converter loads the file
EntryChangesInCalls ==
    cache' # cache =>
        \/ last'.op \in {"fetch_rates", "get_base"}
        \/ cache' = LoadDiskCache(disk)

\* C24: after any sequence of fetch_rates calls with any provider outcomes,
\* from any cache the system wrote or none, get_base returns the base of the
\* table most recently returned by fetch_rates, running one resolution first
\* when there is no entry yet, and that table holds rate 1.0 for that base
C24_GetBaseIsBaseOfLastTable ==
    [](BaseOfLastTable) /\ [][EntryChangesInCalls]_vars

\* get_base answers USD after fetch_rates returned a provider's USD-based
\* table
C24_Witness ==
    /\ last.op = "get_base"
    /\ last.pre.present
    /\ last.base = "USD"
    /\ last.base # SEED_BASE
    /\ cache.rates["USD"] = ONE

-----------------------------------------------------------------------------
(* Properties of two converters on one file *)

BothReturned == \A i \in Converters : last[i].pc = "returned"

\* C25: for two converters on one cache file whose load, fetch and write
\* steps interleave in any order without locking, every fetch_rates call
\* returns a non-empty table without raising, and when both have finished the
\* file holds exactly the entry written by the last writer
C25_AsClaimed ==
    /\ \A i \in Converters :
            last[i].pc = "returned" => (~last[i].raised /\ DOMAIN last[i].ret # {})
    /\ (BothReturned /\ disk.writer # 0) =>
            /\ disk.chunks = Dump(cache[disk.writer])
            /\ LoadChunks(disk) = cache[disk.writer]

-----------------------------------------------------------------------------
(* Properties of the provider chain's report *)

ChainRan == call.fn = "_try_fetch_from_providers" /\ call.done

\* no provider of the call yielded a table
EveryProviderFailed == FirstAnswering(call.args.outcomes) = 0

\* C26: when every provider fails, the chain reports a distinct "chain
\* exhausted" outcome to its caller with one recorded error per provider, and
\* does not hand a fallback table over as if it were a resolved one
C26_AsClaimed ==
    (ChainRan /\ EveryProviderFailed) =>
        /\ call.out.kind = "raised"
        /\ Len(call.out.errors) = Len(PROVIDERS)

-----------------------------------------------------------------------------
(* Properties of the store *)

Queried == call.fn = "test_insert_transaction" /\ call.pc = "queried"

\* C27: after init_db, a transaction added to a session and committed is in
\* the store: a later query by its category returns exactly that one row,
\* with the amount that was written
C27_AsClaimed ==
    Queried =>
        /\ call.out.kind = "row"
        /\ call.out.row = store[Len(store)]
        /\ call.out.row.amount = call.pending[1].amount

-----------------------------------------------------------------------------
(* Properties of freshness *)

\* C28: whenever fetch_rates returns without issuing any provider request,
\* the returned table was obtained from a provider less than ttl seconds
\* earlier (so once ttl seconds have passed since the last successful
\* provider fetch, every call issues a request until a provider succeeds)
C28_AsClaimed ==
    (Fetched /\ last.requests = <<>>) =>
        /\ call.known
        /\ last.ret = call.rates
        /\ now - call.at < ttl

-----------------------------------------------------------------------------
(* Properties of the danger zone *)

DangerPressed == lastTx.op \in {"clear", "reset"}

\* the typed text is the word of the button pressed, in any letter case and
\* with blanks around it
ConfirmationMatches ==
    \/ lastTx.op = "clear" /\ call.args.typed \in {"CLEAR", " clear "}
    \/ lastTx.op = "reset" /\ call.args.typed \in {"RESET", "reset "}

\* after a handler: emptied when confirmed and done, untouched when not
\* confirmed
ClearedOnlyWhenConfirmed ==
    DangerPressed =>
        /\ (ConfirmationMatches /\ lastTx.ok) => (store = <<>> /\ optimistic_tx = <<>>)
        /\ ~ConfirmationMatches => (store = lastTx.rows /\ optimistic_tx = lastTx.pre)

\* the read after a confirmed and successful handler shows no rows
NextReadShowsNothing ==
    (DangerPressed /\ ConfirmationMatches /\ lastTx.ok /\ lastTx'.op = "read") =>
        view' = <<>>

\* C29: "Delete all transactions" and "Factory reset" take effect only when
\* the typed confirmation matches (CLEAR / RESET, in any letter case,
\* trimmed): when it matches and the store operation succeeds, the store and
\* the optimistic buffer are empty afterwards and the next read shows no
\* rows; when it does not match, store and buffer are unchanged
C29_ClearNeedsConfirmation ==
    [](ClearedOnlyWhenConfirmed) /\ [][NextReadShowsNothing]_vars

\* "Delete all" confirmed with " clear " emptied a store and a buffer that
\* held rows
C29_Witness ==
    /\ lastTx.op = "clear" /\ lastTx.ok
    /\ call.args.typed = " clear "
    /\ lastTx.rows # <<>> /\ lastTx.pre # <<>>
    /\ store = <<>> /\ optimistic_tx = <<>>

-----------------------------------------------------------------------------
(* Properties of the dialog flags *)

BothFlags(r) == r.show_add_tx /\ r.show_settings

\* where the dialogs are rendered, the two flags are not both set
OneDialogAtRender ==
    (call.fn = "app.py" /\ call.pc \in {"add", "settings"}) => ~BothFlags(call)

\* a button sets its flag and clears the other; both flags set before
\* rendering leaves Settings; a successful save clears the dialog's own flag
FlagSteps ==
    /\ (call.pc = "buttons" /\ call.event = "add button") =>
            (call'.show_add_tx /\ ~call'.show_settings)
    /\ (call.pc = "buttons" /\ call.event = "settings button") =>
            (call'.show_settings /\ ~call'.show_add_tx)
    /\ (call.pc = "safety" /\ BothFlags(call)) =>
            (~call'.show_add_tx /\ call'.show_settings)
    /\ (call.pc = "add" /\ call'.pc = "rerun") => ~call'.show_add_tx
    /\ (call.pc = "settings" /\ call'.pc = "rerun") => ~call'.show_settings

\* C30: in every script run, where the dialogs are rendered show_add_tx and
\* show_settings are never both true: pressing a button sets its flag and
\* clears the other, both being true before rendering clears show_add_tx
\* (Settings wins), and a successful save in a dialog clears that dialog's
\* own flag
C30_OneDialogAtATime ==
    [](OneDialogAtRender) /\ [][FlagSteps]_vars

\* "Add transaction" pressed while Settings was open: at the render point
\* only show_add_tx is set
C30_Witness ==
    /\ call.fn = "app.py" /\ call.pc = "add"
    /\ call.event = "add button"
    /\ call.settings_open # "none"
    /\ call.show_add_tx /\ ~call.show_settings

-----------------------------------------------------------------------------
(* One converter persists the entry, the next converter loads it *)

MaxElapsed == 3

\* a call not made yet
Uncalled ==
    [error |-> "uncalled", base |-> JAbsent,
     r |-> Result(FALSE, EmptyTable, NoEntry, NoFile, <<>>, <<>>, 0)]

\* pc: "first" (the first converter is constructed), "persisted" (its
\* fetch_rates is over), "second" (a new converter is constructed on the same
\* path), "fetched" / "based" (fetch_rates / get_base of the new converter is
\* over); outcomes, w, first: the first fetch_rates, at: its time, base: what
\* get_base of the first converter returns after it; second: the call of the
\* new converter
Trip(pc, outcomes, w, first, base, at, second) ==
    [fn |-> "round_trip", pc |-> pc, outcomes |-> outcomes, w |-> w, first |-> first,
     base |-> base, at |-> at, second |-> second]

InitTrip ==
    /\ now = 0
    /\ ttl \in 1..(MaxTTL + 1)
    /\ disk \in RawFiles
    /\ cache = RawLoad(disk)
    /\ last = Idle
    /\ store = <<>>
    /\ optimistic_tx = <<>>
    /\ view = <<>>
    /\ lastTx = Did("none", TRUE, <<>>, <<>>)
    /\ call = Trip("first", [i \in 1..Len(PROVIDERS) |-> Unasked], "refused", Uncalled,
                   "", 0, Uncalled)

\* fetch_rates of the first converter, then its get_base
FirstFetchRates ==
    /\ call.pc = "first"
    /\ \E outcomes \in ConvertRuns, w \in WriteOutcomes :
         LET out == RawFetchRates(cache, disk, now, ttl, outcomes, w) IN
            /\ call' = Trip("persisted", outcomes, w, out,
                            IF out.r.cache.present
                            THEN GetBase(out.r.cache, out.r.file, now, ttl, outcomes, w).base
                            ELSE "",
                            now, Uncalled)
            /\ disk' = RawWritten(out.r.file)
            /\ cache' = out.r.cache
    /\ UNCHANGED <<now, ttl, last>>
    /\ UNCHANGED txVars

\* time passes between the calls
Elapse ==
    /\ call.pc \in {"persisted", "second"}
    /\ now < MaxElapsed
    /\ now' = now + 1
    /\ UNCHANGED <<ttl, cache, disk, last>>
    /\ UNCHANGED <<txVars, call>>

\* CurrencyConverter(...) again on the same cache_path
NewConverter ==
    /\ call.pc = "persisted"
    /\ cache' = RawLoad(disk)
    /\ call' = [call EXCEPT !.pc = "second"]
    /\ UNCHANGED <<now, ttl, disk, last>>
    /\ UNCHANGED txVars

\* fetch_rates of the new converter
SecondFetchRates ==
    /\ call.pc = "second"
    /\ \E outcomes \in ConvertRuns, w \in {"written", "refused"} :
         LET out == RawFetchRates(cache, disk, now, ttl, outcomes, w) IN
            /\ call' = [call EXCEPT !.pc = "fetched",
                                    !.second = [error |-> out.error, base |-> JAbsent,
                                                r |-> out.r]]
            /\ disk' = RawWritten(out.r.file)
            /\ cache' = out.r.cache
    /\ UNCHANGED <<now, ttl, last>>
    /\ UNCHANGED txVars

\* get_base of the new converter
SecondGetBase ==
    /\ call.pc = "second"
    /\ \E outcomes \in ConvertRuns, w \in {"written", "refused"} :
         LET out == RawGetBase(cache, disk, now, ttl, outcomes, w) IN
            /\ call' = [call EXCEPT !.pc = "based", !.second = out]
            /\ disk' = RawWritten(out.r.file)
            /\ cache' = out.r.cache
    /\ UNCHANGED <<now, ttl, last>>
    /\ UNCHANGED txVars

NextTrip == FirstFetchRates \/ Elapse \/ NewConverter \/ SecondFetchRates \/ SecondGetBase

SpecTrip == InitTrip /\ [][NextTrip]_vars

-----------------------------------------------------------------------------
(* Claim C31 *)

\* the first converter resolved a table from a provider and wrote the file
Persisted ==
    /\ call.fn = "round_trip"
    /\ call.pc \in {"fetched", "based"}
    /\ call.first.error = "none"
    /\ call.first.r.saves = 1
    /\ FirstAnswering(call.outcomes) # 0
    /\ call.w = "written"

\* the new converter is called less than ttl after the entry was stored
CalledWithinTtl == (now - call.at) < ttl

\* C31: a table resolved from a provider and persisted by one converter is
\* returned unchanged, with no provider request, by fetch_rates of a new
\* converter constructed on the same cache path less than ttl later, and
\* get_base of the new converter returns the same base.
C31_CacheRoundTrip ==
    (Persisted /\ CalledWithinTtl) =>
        /\ call.second.error = "none"
        /\ ~call.second.r.raised
        /\ call.second.r.requests = <<>>
        /\ call.pc = "fetched" => call.second.r.ret = call.first.r.ret
        /\ call.pc = "based" => call.second.base = JStr(call.base)

\* fetch_rates of the new converter is called after time has passed and returns
\* without a request
C31_Witness ==
    /\ Persisted
    /\ CalledWithinTtl
    /\ now > call.at
    /\ call.first.r.ret # EmptyTable
    /\ call.second.r.requests = <<>>
    /\ call.pc = "fetched"

\* get_base of the new converter returned the persisted base
C31_WitnessBase ==
    /\ Persisted
    /\ CalledWithinTtl
    /\ call.pc = "based"
    /\ call.second.base = JStr(call.base)
    /\ call.base # ""

-----------------------------------------------------------------------------
(* Claim C32 *)

\* the call passed a rates argument, empty or not
OverrideGiven == Converted /\ call.args.rates.given

\* C32: convert called with a rates override issues no provider request and
\* leaves the cache entry, in memory and on disk, unchanged, whether it
\* returns a value or raises MissingRate, for every override value including
\* an empty mapping.
C32_AsClaimed ==
    OverrideGiven =>
        /\ call.out.fetch.calls = 0
        /\ call.out.fetch.r.requests = <<>>
        /\ cache = call.args.entry
        /\ disk = call.args.file

-----------------------------------------------------------------------------
(* The backfill at the start of a script run, on drawn tables *)

\* the most runs of the script
MaxBackfills == 2

\* rows a table is drawn from, by id: without amount_eur in currencies with
\* and without a rate, and one with amount_eur
NullRows ==
    <<Row(1, DateTime(1, 0), 5, "EUR", NoAmount, "General", "expense", "rent"),
      Row(2, DateTime(1, 1), 5, "USD", NoAmount, "General", "income", ""),
      Row(3, DateTime(2, 0), 7, "usd", NoAmount, NoneStr, "expense", NoneStr),
      Row(4, DateTime(2, 0), 5, "XXX", NoAmount, "General", "expense", "rent"),
      Row(5, DateTime(2, 0), 7, "GBP", Ratio(700, 85), "Food & Dining", "expense", "lunch"),
      Row(6, DateTime(2, 1), 5, NoneStr, NoAmount, "General", "expense", "rent")>>

NullTables ==
    {t \in UNION {[1..n -> {NullRows[i] : i \in DOMAIN NullRows}] : n \in 0..MaxDb} :
        \A a, b \in DOMAIN t : a < b => t[a].id < t[b].id}

\* tables fetch_rates hands out: the seed, a table of base USD a provider
\* answered without EUR, tables in which a provider gave a rate of 0
UsdOnly == ("USD" :> ONE) @@ ("GBP" :> 80)
ZeroEur == ("USD" :> ONE) @@ ("EUR" :> 0)
BackfillTables == {SEED_RATES, EurOnly, ZeroUsd, UsdOnly, ZeroEur, UsdTable}

\* rates: the table fetch_rates returns in every run; runs: the runs so far;
\* pre: the table before the last run; first: the table after the first run
Backfilled(rates, runs, pre, first) ==
    [fn |-> "backfill", rates |-> rates, runs |-> runs, pre |-> pre, first |-> first]

InitBackfill ==
    /\ RatesAtRest
    /\ store \in NullTables
    /\ optimistic_tx = <<>>
    /\ view = <<>>
    /\ lastTx = Did("none", TRUE, <<>>, <<>>)
    /\ \E rates \in BackfillTables : call = Backfilled(rates, 0, <<>>, <<>>)

\* app.py line 50 in one run of the script
BackfillRun ==
    /\ call.runs < MaxBackfills
    /\ store' = Backfill(store, call.rates)
    /\ call' = Backfilled(call.rates, call.runs + 1, store,
                          IF call.runs = 0 THEN Backfill(store, call.rates)
                          ELSE call.first)
    /\ UNCHANGED <<optimistic_tx, view, lastTx>>
    /\ UNCHANGED rateVars

NextBackfill == BackfillRun

SpecBackfill == InitBackfill /\ [][NextBackfill]_vars

-----------------------------------------------------------------------------
(* Claim C33 *)

BackfillRan == call.fn = "backfill" /\ call.runs > 0

\* the currency of a row as the backfill reads it
RowCurrency(row) == Upper(StrOr(row.currency, "EUR"))

\* the currency of the row has a non-zero rate in the table
HasRate(row, rates) == RowCurrency(row) \in DOMAIN rates /\ rates[RowCurrency(row)] # 0

\* only amount_eur of a row may differ
SameButAmountEur(a, b) == [a EXCEPT !.amount_eur = NoAmount] = [b EXCEPT !.amount_eur = NoAmount]

\* the amount_eur the claim gives a row that had none (a table without EUR
\* leaves rates[EUR] undefined: any value is accepted)
AsBackfillClaimed(before, after, rates) ==
    IF HasRate(before, rates)
    THEN "EUR" \in DOMAIN rates =>
            after.amount_eur = Ratio(before.amount * rates["EUR"], rates[RowCurrency(before)])
    ELSE IF RowCurrency(before) = "EUR" THEN after.amount_eur = Whole(before.amount)
    ELSE after.amount_eur = NoAmount

\* the frame of the backfill and its repetition
BackfillFrame ==
    /\ Len(store) = Len(call.pre)
    /\ \A i \in 1..Len(store) :
          /\ SameButAmountEur(call.pre[i], store[i])
          /\ call.pre[i].amount_eur # NoAmount => store[i] = call.pre[i]
    /\ call.runs = 2 => store = call.first

\* C33: the backfill changes only rows whose amount_eur is NULL: such a row
\* whose currency has a non-zero rate gets amount * rates[EUR] /
\* rates[currency], a row whose currency has no usable rate stays NULL or,
\* when its currency is EUR, gets its own amount; rows with amount_eur and
\* all other columns are unchanged, and a second run with the same table
\* leaves the store as the first run left it.
C33_AsClaimed ==
    BackfillRan =>
        /\ BackfillFrame
        /\ \A i \in 1..Len(store) :
              call.pre[i].amount_eur = NoAmount =>
                  AsBackfillClaimed(call.pre[i], store[i], call.rates)

\* the claim holds for every row but a EUR row under a table whose EUR rate
\* is 0, which stays NULL
C33_ExceptEurAtZero ==
    BackfillRan =>
        /\ BackfillFrame
        /\ \A i \in 1..Len(store) :
              call.pre[i].amount_eur = NoAmount =>
                  IF RowCurrency(call.pre[i]) = "EUR" /\ "EUR" \in DOMAIN call.rates
                     /\ call.rates["EUR"] = 0
                  THEN store[i].amount_eur = NoAmount
                  ELSE AsBackfillClaimed(call.pre[i], store[i], call.rates)

=============================================================================
